---------------------------- MODULE Spec2Model ----------------------------
(***************************************************************************)
(* A model of scd, a terminal file manager bridged to a live shell.        *)
(*                                                                         *)
(* The single consumer loop (App::run) owns the file manager, the task     *)
(* manager and the status bar; it is fed by the key reader, the timer, the *)
(* filesystem watcher, the shell-event reader and the per-task reader      *)
(* threads.  The shell, the filesystem and the task children are the       *)
(* environment.                                                            *)
(*                                                                         *)
(* Conventions: Option<T> is a sequence of length 0 (None) or 1 (Some);    *)
(* indexes are 0-based as in the source; a path is the sequence of its     *)
(* components (the root is the empty sequence); a handler is an operator   *)
(* from a context record (the three objects plus the effects of the call)  *)
(* to a context record, and the ? operator is the test c.res = "ok".       *)
(***************************************************************************)
EXTENDS Integers, Sequences, FiniteSets, TLC

VARIABLES
    file_manager,   \* FileManager: dir, all_files, files, files_marked, filter,
                    \*   show_hidden, selected (list_state), shell_pid, watched
    task_manager,   \* TaskManager: tasks, selected (list_state)
    status_bar,     \* StatusBar: mode
    input_focus,    \* App.input_focus
    loop,           \* App::run: "running", "done" (Ok), "failed" (Err), "panicked"
    pipe,           \* commands written to CMDS_TO_RUN and not yet read by the shell,
                    \*   each with the pid run() was called with
    usr1,           \* number of SIGUSR1 signals sent to the shell
    received,       \* per command the shell has read: the pid run() was called with
    evq,            \* shell events written to SHELL_EVENTS, not yet handled
    shell_cwd,      \* the shell's working directory
    fs,             \* the regular files that currently exist
    watchq,         \* filesystem notifications not yet handled
    procs,          \* per task pid: the child and its two reader threads
    task_sigs,      \* signals pending for task children: a set of [pid, sig]
    now,            \* the clock, in seconds
    chan,           \* the event channels: buffers, blocked senders, counts
    bridge,         \* the two named pipes step by step: where the loop thread is in
                    \*   run(), where the shell and the event reader thread are
    hist,           \* history: inputs so far, a request was dropped, the prompt's target
    last            \* history: the step that led to this state, the mode it began in

vars == <<file_manager, task_manager, status_bar, input_focus, loop, pipe, usr1,
          received, evq, shell_cwd, fs, watchq, procs, task_sigs, now, chan,
          bridge, hist, last>>

-----------------------------------------------------------------------------
(* Bounds of the model.                                                    *)

MaxCmds == 2        \* commands run() writes
MaxInputs == 2      \* shell events announced and files changed by other processes
MaxTasks == 1       \* tasks spawned
MaxLines == 1       \* chunks a child writes
MaxProduced == 2    \* events each of the key, timer and watch producers produces
MaxText == 3        \* bytes of the text of an Edit prompt
MaxListTasks == 2   \* tasks listed when the order of the list is examined

-----------------------------------------------------------------------------
(* Option, sequences.                                                      *)

None == <<>>
Some(x) == <<x>>

Range(s) == {s[i] : i \in 1..Len(s)}

Front(s) == SubSeq(s, 1, Len(s) - 1)

Last(s) == s[Len(s)]

\* Iterator::position, 0-based
Position(s, P(_)) ==
    IF \E i \in 1..Len(s) : P(s[i])
    THEN Some((CHOOSE i \in 1..Len(s) : P(s[i]) /\ \A j \in 1..(i - 1) : ~P(s[j])) - 1)
    ELSE None

-----------------------------------------------------------------------------
(* Strings.  A string is a TLA+ string (Len, SubSeq and \o apply); its     *)
(* bytes order it.                                                         *)

\* the byte of an ASCII character
Ord(ch) ==
    CASE ch = "." -> 46
      [] ch = "/" -> 47
      [] ch = "B" -> 66
      [] ch = "a" -> 97
      [] ch = "b" -> 98
      [] ch = "c" -> 99
      [] ch = "f" -> 102
      [] ch = "g" -> 103
      [] ch = "h" -> 104
      [] ch = "x" -> 120

Bytes(n) == [i \in 1..Len(n) |-> Ord(SubSeq(n, i, i))]

\* char::to_lowercase on the model's alphabet
LowerCh(ch) == IF ch = "B" THEN "b" ELSE ch

\* str::to_lowercase
RECURSIVE ToLower(_)
ToLower(n) == IF n = "" THEN "" ELSE LowerCh(SubSeq(n, 1, 1)) \o ToLower(SubSeq(n, 2, Len(n)))

\* str::contains
Contains(n, pat) ==
    \E i \in 0..(Len(n) - Len(pat)) : SubSeq(n, i + 1, i + Len(pat)) = pat

\* str::starts_with
StartsWith(n, pre) == Len(n) >= Len(pre) /\ SubSeq(n, 1, Len(pre)) = pre

\* str::replace
RECURSIVE Replace(_, _, _)
Replace(n, pat, by) ==
    IF Len(n) < Len(pat) THEN n
    ELSE IF SubSeq(n, 1, Len(pat)) = pat
    THEN by \o Replace(SubSeq(n, Len(pat) + 1, Len(n)), pat, by)
    ELSE SubSeq(n, 1, 1) \o Replace(SubSeq(n, 2, Len(n)), pat, by)

\* A character outside ASCII takes more than one byte: e-acute is a lead byte and
\* a continuation byte, written here as two characters no name of the model has.
EAcute == "#~"

\* the bytes 10xxxxxx
IsContinuation(b) == b = "~"

\* str::is_char_boundary, idx counted in bytes from 0
IsCharBoundary(text, idx) ==
    \/ idx = 0
    \/ idx = Len(text)
    \/ idx < Len(text) /\ ~IsContinuation(SubSeq(text, idx + 1, idx + 1))

\* char::len_utf8 of the character that starts at byte idx
CharLen(text, idx) ==
    IF idx + 2 <= Len(text) /\ SubSeq(text, idx + 1, idx + 2) = EAcute THEN 2 ELSE 1

\* Ord for str: lexicographic by byte
RECURSIVE BytesLess(_, _)
BytesLess(s, t) ==
    IF t = <<>> THEN FALSE
    ELSE IF s = <<>> THEN TRUE
    ELSE IF s[1] # t[1] THEN s[1] < t[1]
    ELSE BytesLess(Tail(s), Tail(t))

-----------------------------------------------------------------------------
(* The filesystem: a fixed directory tree and regular files that come and  *)
(* go.  A directory in Unreadable can be entered by the shell but cannot   *)
(* be enumerated by the UI (fs::read_dir fails).                           *)

Root == <<>>
Dirs == {<<>>, <<"a">>, <<"x">>}
Unreadable == {<<"x">>}
DynFiles == {<<"f">>}
StaticFiles == {<<"a", "g">>, <<".h">>}

\* Path::parent
Parent(p) == IF p = Root THEN None ELSE Some(Front(p))

\* Path::file_name
FileName(p) == Last(p)

\* Path::join
Join(d, n) == Append(d, n)

\* Path::to_str
RECURSIVE PathStr(_)
PathStr(p) ==
    IF p = Root THEN "/"
    ELSE IF Len(p) = 1 THEN "/" \o p[1]
    ELSE PathStr(Front(p)) \o "/" \o Last(p)

AllPaths == Dirs \cup DynFiles \cup StaticFiles

\* the path a string names
IsPathStr(s) == \E p \in AllPaths : PathStr(p) = s
ParsePath(s) == CHOOSE p \in AllPaths : PathStr(p) = s

FileInfo(p) == [path |-> p, name |-> FileName(p), is_dir |-> p \in Dirs]

Entries(d) == {FileInfo(p) : p \in {q \in (Dirs \cup StaticFiles \cup fs) : q # Root /\ Front(q) = d}}

\* a comparator that orders by name alone
FileLessByName(a, b) == BytesLess(Bytes(a.name), Bytes(b.name))

\* the comparator of read_dir's sort
FileLess(a, b) ==
    IF a.is_dir /\ ~b.is_dir THEN TRUE
    ELSE IF ~a.is_dir /\ b.is_dir THEN FALSE
    ELSE BytesLess(Bytes(a.name), Bytes(b.name))

RECURSIVE SortFiles(_)
SortFiles(S) ==
    IF S = {} THEN <<>>
    ELSE LET m == CHOOSE x \in S : \A y \in S \ {x} : FileLess(x, y)
         IN <<m>> \o SortFiles(S \ {m})

\* FileManager::read_dir
ReadDir(d) ==
    IF d \in Unreadable
    THEN [ok |-> FALSE, val |-> <<>>]
    ELSE [ok |-> TRUE, val |-> SortFiles(Entries(d))]

-----------------------------------------------------------------------------
(* ListExt (app.rs): a list and its Option<usize> selection.               *)

\* get_index().unwrap_or(0)
SelIdx(sel) == IF sel = None THEN 0 ELSE sel[1]

\* selected() indexes the list: out of bounds is a panic
SelectedFaults(list, sel) == list # <<>> /\ SelIdx(sel) >= Len(list)

Selected(list, sel) == IF list = <<>> THEN None ELSE Some(list[SelIdx(sel) + 1])

SelectFirst(list) == IF list = <<>> THEN None ELSE Some(0)

SelectLast(list) == IF Len(list) = 0 THEN None ELSE Some(Len(list) - 1)

\* (i + 1) % len: a remainder by zero is a panic
SelectNextFaults(list, sel) == sel # None /\ Len(list) = 0

SelectNext(list, sel) == IF sel = None THEN None ELSE Some((sel[1] + 1) % Len(list))

SelectPrev(list, sel) ==
    IF sel = None THEN None
    ELSE IF sel[1] = 0 /\ list = <<>> THEN None
    ELSE IF sel[1] = 0 THEN Some(Len(list) - 1)
    ELSE Some(sel[1] - 1)

NextKeys == {"j", "Ctrl-n", "Down"}
PrevKeys == {"k", "Ctrl-p", "Up"}
FirstKeys == {"g", "Home"}
LastKeys == {"G", "End"}

\* {:?} of a key
KeyDebug(key) == IF Len(key) = 1 THEN "Char('" \o key \o "')" ELSE key

\* on_list_key: [res, msg, sel]
OnListKey(list, sel, key) ==
    IF key \in NextKeys THEN
        IF SelectNextFaults(list, sel)
        THEN [res |-> "panic", msg |-> "remainder by zero", sel |-> sel]
        ELSE [res |-> "ok", msg |-> "", sel |-> SelectNext(list, sel)]
    ELSE IF key \in PrevKeys THEN [res |-> "ok", msg |-> "", sel |-> SelectPrev(list, sel)]
    ELSE IF key \in FirstKeys THEN [res |-> "ok", msg |-> "", sel |-> SelectFirst(list)]
    ELSE IF key \in LastKeys THEN [res |-> "ok", msg |-> "", sel |-> SelectLast(list)]
    ELSE [res |-> "err", msg |-> "Unknown key: " \o KeyDebug(key), sel |-> sel]

-----------------------------------------------------------------------------
(* The context a handler runs in: the objects it may change and the effects *)
(* of the call (commands written, signals sent, the Result).               *)

NewCtx(fm, tm, bar, focus) ==
    [fm |-> fm, tm |-> tm, bar |-> bar, focus |-> focus, loop |-> "running",
     res |-> "ok", msg |-> "", out |-> <<>>, usr1 |-> 0, tkill |-> {},
     ran |-> "none", calls |-> <<>>]

Ctx == NewCtx(file_manager, task_manager, status_bar, input_focus)

Err(c, msg) == [c EXCEPT !.res = "err", !.msg = msg]

Panic(c, msg) == [c EXCEPT !.res = "panic", !.msg = msg]

-----------------------------------------------------------------------------
(* The shell bridge, UI side (shell/mod.rs).                               *)

PidValues == {7, 9}

\* the processes kill() can reach: the live shell
LiveShellPids == {7}

\* ensure!(pid.as_raw() > 0, ..)
ShellKnown(pid) == pid > 0

\* format!("'{}'", a) joined by " "
RECURSIVE JoinArgs(_)
JoinArgs(args) ==
    IF args = <<>> THEN ""
    ELSE IF Len(args) = 1 THEN "'" \o args[1] \o "'"
    ELSE "'" \o args[1] \o "' " \o JoinArgs(Tail(args))

\* the text run() writes
FormatCmd(cmd, args, echo) ==
    LET a == JoinArgs(args)
        body == IF Contains(cmd, "{}") THEN Replace(cmd, "{}", a) ELSE cmd \o " " \o a
    IN  IF echo THEN "scd_run_with_echo \"" \o body \o "\""
        ELSE "scd_run_silently \"" \o body \o "\""

\* run() with a pid it accepts: signal the shell, then write the command
RunSend(c, cmd, args, echo) ==
    IF c.fm.shell_pid \notin LiveShellPids
    THEN [Err(c, "Failed to notify the shell") EXCEPT !.ran = "unreachable"]
    ELSE [c EXCEPT !.usr1 = @ + 1,
                   !.out = Append(@, FormatCmd(cmd, args, echo)),
                   !.ran = "sent"]

\* run() without the ensure!
RunUnguarded(c, cmd, args, echo) ==
    [c EXCEPT !.usr1 = @ + 1,
              !.out = Append(@, FormatCmd(cmd, args, echo)),
              !.ran = IF ShellKnown(c.fm.shell_pid) THEN "sent" ELSE "dropped"]

\* run() that reports success when no shell is known
RunSilent(c, cmd, args, echo) ==
    IF ~ShellKnown(c.fm.shell_pid) THEN [c EXCEPT !.ran = "dropped"]
    ELSE RunSend(c, cmd, args, echo)

\* run
Run(c, cmd, args, echo) ==
    IF ~ShellKnown(c.fm.shell_pid)
    THEN [Err(c, "shell not initialized") EXCEPT !.ran = "dropped"]
    ELSE RunSend(c, cmd, args, echo)

\* deinit
Deinit(c) == Run(c, "scd_deinit", <<"">>, FALSE)

-----------------------------------------------------------------------------
(* The status bar (status_bar.rs).                                         *)

MessageSecs == 4

Normal == [kind |-> "Normal"]

\* show_message
ShowMessage(c, text) ==
    [c EXCEPT !.bar.mode = [kind |-> "Message", text |-> text,
                            expire_at |-> now + MessageSecs]]

\* ask
Ask(c, prompt, on_yes) ==
    [c EXCEPT !.bar.mode = [kind |-> "Ask", prompt |-> prompt, on_yes |-> on_yes]]

\* edit
Edit(c, prompt, text, on_change, on_enter) ==
    [c EXCEPT !.bar.mode = [kind |-> "Edit", prompt |-> prompt, text |-> text,
                            cursor |-> Len(text), on_change |-> on_change,
                            on_enter |-> on_enter]]

\* on_tick
BarOnTick(c, tick) ==
    IF c.bar.mode.kind = "Message" /\ c.bar.mode.expire_at >= tick
    THEN [c EXCEPT !.bar.mode = Normal]
    ELSE c

-----------------------------------------------------------------------------
(* The file manager (file_manager.rs).                                     *)

\* a select_file that selects the first entry whatever the name
SelectFileFirst(c, name) == [c EXCEPT !.fm.selected = Some(0)]

\* select_file
SelectFile(c, name) ==
    LET idx == Position(c.fm.files, LAMBDA f : f.name = name)
    IN  [c EXCEPT !.fm.selected = Some(IF idx = None THEN 0 ELSE idx[1])]

\* apply_filter
ApplyFilter(c) ==
    IF SelectedFaults(c.fm.files, c.fm.selected) THEN Panic(c, "index out of bounds")
    ELSE LET selected == Selected(c.fm.files, c.fm.selected)
             keep(f) == /\ (c.fm.show_hidden \/ ~StartsWith(f.name, "."))
                        /\ Contains(ToLower(f.name), ToLower(c.fm.filter))
             c1 == [c EXCEPT !.fm.files = SelectSeq(c.fm.all_files, keep)]
         IN  IF selected = None THEN c1 ELSE SelectFile(c1, selected[1].name)

\* a cd that does not swap the directory back when read_dir fails
CdStaysInNew(c, d) ==
    IF d = c.fm.dir THEN c
    ELSE LET rd == ReadDir(d)
         IN  IF rd.ok
             THEN LET c1 == ApplyFilter([c EXCEPT !.fm.dir = d, !.fm.all_files = rd.val])
                  IN  IF c1.res # "ok" THEN c1
                      ELSE [c1 EXCEPT !.fm.selected = SelectFirst(c1.fm.files),
                                      !.fm.watched = d]
             ELSE Err([c EXCEPT !.fm.dir = d, !.fm.watched = d], "Permission denied")

\* cd
Cd(c, d) ==
    IF d = c.fm.dir THEN c
    ELSE LET rd == ReadDir(d)
         IN  IF rd.ok
             THEN LET c1 == ApplyFilter([c EXCEPT !.fm.dir = d, !.fm.all_files = rd.val])
                  IN  IF c1.res # "ok" THEN c1
                      ELSE [c1 EXCEPT !.fm.selected = SelectFirst(c1.fm.files),
                                      !.fm.watched = d]
             ELSE Err(c, "Permission denied")

\* an on_notify that filters the entries it already holds again
OnNotifyStale(c) == ApplyFilter(c)

\* on_notify, for a Create, Remove or Modify event
OnNotify(c) ==
    LET rd == ReadDir(c.fm.dir)
    IN  IF rd.ok THEN ApplyFilter([c EXCEPT !.fm.all_files = rd.val])
        ELSE Err(c, "Permission denied")

\* on_shell_event
OnShellEvent(c, ev) ==
    IF ev.kind = "Pid" THEN [c EXCEPT !.fm.shell_pid = ev.pid]
    ELSE IF ev.kind = "ChangeDirectory" THEN Cd(c, ev.dir)
    ELSE c

\* the extension of every name of the model is None
OpenCmd(file) == "xdg-open"

\* an 'l' arm that asks the shell to change directory before the UI does
KeyEnterShellFirst(c) ==
    IF SelectedFaults(c.fm.files, c.fm.selected) THEN Panic(c, "index out of bounds")
    ELSE LET sel == Selected(c.fm.files, c.fm.selected)
         IN  IF sel = None THEN c
             ELSE IF sel[1].is_dir
             THEN LET c1 == Run(c, "cd", <<PathStr(sel[1].path)>>, FALSE)
                  IN  IF c1.res # "ok" THEN c1 ELSE Cd(c1, sel[1].path)
             ELSE Run(c, OpenCmd(sel[1]), <<sel[1].name>>, TRUE)

\* the 'l' arm
KeyEnter(c) ==
    IF SelectedFaults(c.fm.files, c.fm.selected) THEN Panic(c, "index out of bounds")
    ELSE LET sel == Selected(c.fm.files, c.fm.selected)
         IN  IF sel = None THEN c
             ELSE IF sel[1].is_dir
             THEN LET c1 == Cd(c, sel[1].path)
                  IN  IF c1.res # "ok" THEN c1
                      ELSE Run(c1, "cd", <<PathStr(sel[1].path)>>, FALSE)
             ELSE Run(c, OpenCmd(sel[1]), <<sel[1].name>>, TRUE)

\* the 'h' arm
KeyLeave(c) ==
    IF Parent(c.fm.dir) = None THEN c
    ELSE LET parent == Parent(c.fm.dir)[1]
             current == FileName(c.fm.dir)
             c1 == Cd(c, parent)
         IN  IF c1.res # "ok" THEN c1
             ELSE Run(SelectFile(c1, current), "cd", <<PathStr(parent)>>, FALSE)

\* the ' ' arm
KeyMark(c) ==
    IF SelectedFaults(c.fm.files, c.fm.selected) THEN Panic(c, "index out of bounds")
    ELSE LET sel == Selected(c.fm.files, c.fm.selected)
         IN  IF sel = None THEN c
             ELSE LET at == Position(c.fm.files_marked, LAMBDA q : q = sel[1].path)
                      marked == IF at = None
                                THEN Append(c.fm.files_marked, sel[1].path)
                                ELSE SelectSeq(c.fm.files_marked, LAMBDA q : q # sel[1].path)
                      c1 == [c EXCEPT !.fm.files_marked = marked]
                  IN  IF c.fm.selected = None THEN Panic(c1, "unwrap on None")
                      ELSE IF c.fm.selected[1] # Len(c.fm.files) - 1
                      THEN [c1 EXCEPT !.fm.selected = SelectNext(c.fm.files, c.fm.selected)]
                      ELSE c1

\* the 'p' and 'm' arms
KeyPaste(c, cmd) ==
    IF c.fm.files_marked = <<>> THEN ShowMessage(c, "No files marked")
    ELSE LET files == [i \in 1..Len(c.fm.files_marked) |-> PathStr(c.fm.files_marked[i])]
         IN  Run([c EXCEPT !.fm.files_marked = <<>>], cmd, files, TRUE)

\* the 'd' arm
KeyDelete(c) ==
    IF SelectedFaults(c.fm.files, c.fm.selected) THEN Panic(c, "index out of bounds")
    ELSE LET sel == Selected(c.fm.files, c.fm.selected)
         IN  IF sel = None THEN c
             ELSE Ask(c, "Delete " \o (IF sel[1].is_dir THEN "directory " ELSE "file ")
                             \o sel[1].name \o "? [y/N]",
                      [fn |-> "rm", file |-> PathStr(sel[1].path)])

\* the 'r' arm
KeyRename(c) ==
    IF SelectedFaults(c.fm.files, c.fm.selected) THEN Panic(c, "index out of bounds")
    ELSE LET sel == Selected(c.fm.files, c.fm.selected)
         IN  IF sel = None THEN c
             ELSE Edit(c, "Rename: ", sel[1].name, [fn |-> "noop"],
                       [fn |-> "rename", path |-> sel[1].path])

\* FileManager::on_key
FmOnKey(c, key) ==
    IF key \in {"l", "Enter"} THEN KeyEnter(c)
    ELSE IF key \in {"h", "Esc"} THEN KeyLeave(c)
    ELSE IF key = "." THEN ApplyFilter([c EXCEPT !.fm.show_hidden = ~@])
    ELSE IF key = " " THEN KeyMark(c)
    ELSE IF key = "p" THEN KeyPaste(c, "cp -r {} .")
    ELSE IF key = "m" THEN KeyPaste(c, "mv {} .")
    ELSE IF key = "d" THEN KeyDelete(c)
    ELSE IF key = "r" THEN KeyRename(c)
    ELSE IF key = "/" THEN Edit(c, "/", "", [fn |-> "filter"], [fn |-> "clear_filter"])
    ELSE LET r == OnListKey(c.fm.files, c.fm.selected, key)
         IN  [c EXCEPT !.fm.selected = r.sel, !.res = r.res, !.msg = r.msg]

-----------------------------------------------------------------------------
(* The task manager (task_manager.rs).                                     *)

Spinner == "running"

Running(text) == [kind |-> "Running", text |-> text]
Stopped == [kind |-> "Stopped"]
Exited(code) == [kind |-> "Exited", code |-> code]

\* ExitStatus::success
Success(status) == status.code = 0

Commands == {"curl -O u", "nosuch"}

\* the commands the interpreter can find
Installed == {"curl"}

OutLines == {"50 1k"}

\* a line that is not UTF-8
BadUtf8 == "<not utf-8>"

\* command.split(' ').next()
RECURSIVE FirstWord(_)
FirstWord(cmd) ==
    IF cmd = "" \/ SubSeq(cmd, 1, 1) = " " THEN ""
    ELSE SubSeq(cmd, 1, 1) \o FirstWord(SubSeq(cmd, 2, Len(cmd)))

\* Curl::parse: the captures of (\d+).*?(\w+)$ on the model's lines
CurlParse(line) == IF line = "50 1k" THEN Some("1k/s 50%") ELSE None

\* PARSERS.get(name).and_then(|parser| parser.parse(line)).unwrap_or(spinner)
StatusText(command, line) ==
    IF FirstWord(command) = "curl" /\ CurlParse(line) # None
    THEN CurlParse(line)[1]
    ELSE Spinner

\* tasks.iter_mut().find(|t| t.pid == pid)
FindTask(tasks, pid) == Position(tasks, LAMBDA t : t.pid = pid)

\* the key of the sort in on_event
SortKey(t) ==
    IF t.status.kind = "Running" THEN 3
    ELSE IF t.status.kind = "Stopped" THEN 2
    ELSE IF ~Success(t.status) THEN 1
    ELSE 0

\* a stable sort by the same key, largest key first
SortByKeyDescending(tasks) ==
    SelectSeq(tasks, LAMBDA t : SortKey(t) = 3) \o SelectSeq(tasks, LAMBDA t : SortKey(t) = 2)
        \o SelectSeq(tasks, LAMBDA t : SortKey(t) = 1)
        \o SelectSeq(tasks, LAMBDA t : SortKey(t) = 0)

\* Vec::sort_by_key: stable
SortByKey(tasks) ==
    SelectSeq(tasks, LAMBDA t : SortKey(t) = 0) \o SelectSeq(tasks, LAMBDA t : SortKey(t) = 1)
        \o SelectSeq(tasks, LAMBDA t : SortKey(t) = 2)
        \o SelectSeq(tasks, LAMBDA t : SortKey(t) = 3)

\* the status on_event gives a task on an output line
LineStatus(task, line) == Running(StatusText(task.command, line))

\* on_event
OnEvent(c, ev) ==
    LET at == FindTask(c.tm.tasks, ev.pid)
    IN  IF at = None THEN Panic(c, "unwrap on None")
        ELSE IF ev.kind \in {"Stdout", "Stderr"}
        THEN [c EXCEPT !.tm.tasks[at[1] + 1].status = LineStatus(c.tm.tasks[at[1] + 1], ev.line)]
        ELSE [c EXCEPT !.tm.tasks =
                 SortByKey([c.tm.tasks EXCEPT ![at[1] + 1].status = Exited(ev.code)])]

\* Task::new: spawn the interpreter on the command; spawned is the child's pid
TaskNew(command, rendered, spawned) ==
    IF spawned = None THEN None
    ELSE Some([pid |-> spawned[1], command |-> command, rendered |-> rendered,
               status |-> Running(Spinner)])

\* new_task that drops the error of Task::new
NewTaskSwallows(c, command, rendered, spawned) ==
    LET task == TaskNew(command, rendered, spawned)
    IN  IF task = None THEN c
        ELSE LET tasks == Append(c.tm.tasks, task[1])
             IN  [c EXCEPT !.tm.tasks = tasks, !.tm.selected = SelectFirst(tasks)]

\* new_task that puts the Task in front of the others
NewTaskInFront(c, command, rendered, spawned) ==
    LET task == TaskNew(command, rendered, spawned)
    IN  IF task = None THEN Err(c, "No such file or directory")
        ELSE LET tasks == <<task[1]>> \o c.tm.tasks
             IN  [c EXCEPT !.tm.tasks = tasks, !.tm.selected = SelectFirst(tasks)]

\* new_task
NewTask(c, command, rendered, spawned) ==
    LET task == TaskNew(command, rendered, spawned)
    IN  IF task = None THEN Err(c, "No such file or directory")
        ELSE LET tasks == Append(c.tm.tasks, task[1])
             IN  [c EXCEPT !.tm.tasks = tasks, !.tm.selected = SelectFirst(tasks)]

\* kill(pid, sig) on a task's child: the pid must name a process
\* kill() that reaches every pid
KillAny(c, pid, sig) == [c EXCEPT !.tkill = @ \cup {[pid |-> pid, sig |-> sig]}]

Kill(c, pid, sig) ==
    IF procs[pid].child \in {"running", "zombie"}
    THEN [c EXCEPT !.tkill = @ \cup {[pid |-> pid, sig |-> sig]}]
    ELSE Err(c, "ESRCH: No such process")

\* 't' and '9' arms that send the signal at once, with no prompt
KeyKillNow(c, sig) ==
    IF SelectedFaults(c.tm.tasks, c.tm.selected) THEN Panic(c, "index out of bounds")
    ELSE LET sel == Selected(c.tm.tasks, c.tm.selected)
         IN  IF sel = None THEN c ELSE Kill(c, sel[1].pid, sig)

\* the 't' and '9' arms
KeyKill(c, sig) ==
    IF SelectedFaults(c.tm.tasks, c.tm.selected) THEN Panic(c, "index out of bounds")
    ELSE LET sel == Selected(c.tm.tasks, c.tm.selected)
         IN  IF sel = None THEN c
             ELSE Ask(c, (IF sig = "SIGTERM" THEN "Terminate '" ELSE "Kill '")
                             \o sel[1].command \o "' with " \o sig \o "?",
                      [fn |-> "kill", pid |-> sel[1].pid, sig |-> sig])

\* a 'z' arm that marks the task whatever kill returned
KeyStopUnchecked(c) ==
    IF c.tm.selected = None THEN c
    ELSE IF c.tm.selected[1] >= Len(c.tm.tasks) THEN Panic(c, "index out of bounds")
    ELSE LET i == c.tm.selected[1] + 1
             c1 == Kill(c, c.tm.tasks[i].pid, "SIGINT")
         IN  [c1 EXCEPT !.tm.tasks[i].status = Stopped]

\* the 'z' arm
KeyStop(c) ==
    IF c.tm.selected = None THEN c
    ELSE IF c.tm.selected[1] >= Len(c.tm.tasks) THEN Panic(c, "index out of bounds")
    ELSE LET i == c.tm.selected[1] + 1
             c1 == Kill(c, c.tm.tasks[i].pid, "SIGINT")
         IN  IF c1.res # "ok" THEN c1
             ELSE [c1 EXCEPT !.tm.tasks[i].status = Stopped]

\* draw: the rows of the list from top to bottom, tasks.iter().rev()
Displayed(tm) == [i \in 1..Len(tm.tasks) |-> tm.tasks[Len(tm.tasks) + 1 - i]]

\* the 'c' arm
KeyClear(c) ==
    LET tasks == SelectSeq(c.tm.tasks, LAMBDA t : t.status.kind = "Running")
    IN  [c EXCEPT !.tm.tasks = tasks, !.tm.selected = SelectFirst(tasks)]

\* TaskManager::on_key
TmOnKey(c, key) ==
    IF key = "c" THEN KeyClear(c)
    ELSE IF key = "t" THEN KeyKill(c, "SIGTERM")
    ELSE IF key = "9" THEN KeyKill(c, "SIGKILL")
    ELSE IF key = "z" THEN KeyStop(c)
    ELSE LET r == OnListKey(c.tm.tasks, c.tm.selected, key)
         IN  [c EXCEPT !.tm.selected = r.sel, !.res = r.res, !.msg = r.msg]

-----------------------------------------------------------------------------
(* The status bar's key handler and the closures it holds (status_bar.rs,  *)
(* file_manager.rs, task_manager.rs).                                      *)

\* Path::with_file_name
WithFileName(path, name) == Join(Front(path), name)

\* an on_yes closure that acts on what is selected when it is called
CallOnYesSelected(c, f) ==
    IF f.fn = "rm"
    THEN LET sel == Selected(c.fm.files, c.fm.selected)
         IN  IF sel = None THEN c ELSE Run(c, "rm -r", <<PathStr(sel[1].path)>>, TRUE)
    ELSE Kill(c, f.pid, f.sig)

\* the on_yes closures: 'd' of the file manager, 't' and '9' of the task manager
CallOnYes(c, f) ==
    IF f.fn = "rm" THEN Run(c, "rm -r", <<f.file>>, TRUE)
    ELSE Kill(c, f.pid, f.sig)

\* the on_change closures: 'r' (nothing) and '/' (filter)
CallOnChange(c, f, text) ==
    LET c1 == [c EXCEPT !.calls = Append(@, [fn |-> "on_change", text |-> text])]
    IN  IF f.fn = "filter" THEN ApplyFilter([c1 EXCEPT !.fm.filter = text])
        ELSE c1

\* the on_enter closures: 'r' (mv) and '/' (clear the filter)
CallOnEnter(c, f, text) ==
    LET c1 == [c EXCEPT !.calls = Append(@, [fn |-> "on_enter", text |-> text])]
    IN  IF f.fn = "rename"
        THEN Run(c1, "mv", <<PathStr(f.path), PathStr(WithFileName(f.path, text))>>, TRUE)
        ELSE ApplyFilter([c1 EXCEPT !.fm.filter = ""])

\* Key::Char(ch)
KeyChar(key) ==
    IF key = "Tab" THEN Some("\t")
    ELSE IF key = "Char(e-acute)" THEN Some(EAcute)
    ELSE IF Len(key) = 1 THEN Some(key)
    ELSE None

\* the Ask arm invoking the action on every key
AskOnAnyKey(c, key) ==
    LET c1 == CallOnYes(c, c.bar.mode.on_yes)
    IN  IF c1.res # "ok" THEN c1 ELSE [c1 EXCEPT !.bar.mode = Normal]

\* the Ask arm of on_key
AskOnKey(c, key) ==
    LET c1 == IF key = "y" THEN CallOnYes(c, c.bar.mode.on_yes) ELSE c
    IN  IF c1.res # "ok" THEN c1 ELSE [c1 EXCEPT !.bar.mode = Normal]

\* an Enter arm that reports the text as a change before it commits it
EditEnterChanges(c) ==
    LET m == c.bar.mode
        c1 == CallOnEnter(CallOnChange(c, m.on_change, m.text), m.on_enter, m.text)
    IN  IF c1.res # "ok" THEN c1 ELSE [c1 EXCEPT !.bar.mode = Normal]

\* the Key::Char('\n') arm of Edit
EditEnter(c) ==
    LET m == c.bar.mode
        c1 == CallOnEnter(c, m.on_enter, m.text)
    IN  IF c1.res # "ok" THEN c1 ELSE [c1 EXCEPT !.bar.mode = Normal]

\* the Edit arm of on_key
EditOnKey(c, key) ==
    LET m == c.bar.mode
        text == m.text
        cursor == m.cursor
        changed(t, cur) ==
            CallOnChange([c EXCEPT !.bar.mode.text = t, !.bar.mode.cursor = cur], m.on_change, t)
        \* text.remove(idx), then the cursor: the whole character at byte idx goes
        removed(idx, cur) ==
            IF ~IsCharBoundary(text, idx)
            THEN Panic(c, "byte index is not a char boundary")
            ELSE changed(SubSeq(text, 1, idx)
                             \o SubSeq(text, idx + CharLen(text, idx) + 1, Len(text)), cur)
    IN  IF key = "Enter" THEN EditEnter(c)
        ELSE IF key \in {"Esc", "Ctrl-["}
        THEN LET c1 == CallOnChange(c, m.on_change, "")
             IN  IF c1.res # "ok" THEN c1 ELSE [c1 EXCEPT !.bar.mode = Normal]
        ELSE IF key \in {"Home", "Ctrl-a"} THEN [c EXCEPT !.bar.mode.cursor = 0]
        ELSE IF key \in {"End", "Ctrl-e"} THEN [c EXCEPT !.bar.mode.cursor = Len(text)]
        ELSE IF key \in {"Left", "Ctrl-b"}
        THEN [c EXCEPT !.bar.mode.cursor = IF cursor > 0 THEN cursor - 1 ELSE cursor]
        ELSE IF key \in {"Right", "Ctrl-f"}
        THEN [c EXCEPT !.bar.mode.cursor = IF cursor < Len(text) THEN cursor + 1 ELSE cursor]
        ELSE IF key \in {"Backspace", "Ctrl-h"}
        THEN IF cursor > 0 THEN removed(cursor - 1, cursor - 1) ELSE c
        ELSE IF key \in {"Delete", "Ctrl-d"}
        THEN IF cursor < Len(text) THEN removed(cursor, cursor) ELSE c
        ELSE IF key = "Ctrl-u" THEN changed("", 0)
        ELSE IF KeyChar(key) # None
        THEN IF ~IsCharBoundary(text, cursor)
             THEN Panic(c, "assertion failed: self.is_char_boundary(idx)")
             ELSE changed(SubSeq(text, 1, cursor) \o KeyChar(key)[1]
                              \o SubSeq(text, cursor + 1, Len(text)), cursor + 1)
        ELSE c

\* StatusBar::on_key
BarOnKey(c, key) ==
    IF c.bar.mode.kind = "Normal" THEN Panic(c, "explicit panic")
    ELSE IF c.bar.mode.kind = "Message" THEN [c EXCEPT !.bar.mode = Normal]
    ELSE IF c.bar.mode.kind = "Ask" THEN AskOnKey(c, key)
    ELSE EditOnKey(c, key)

-----------------------------------------------------------------------------
(* The consumer loop (app.rs).                                             *)

\* catch_error!
CatchError(c) == IF c.res = "err" THEN ShowMessage(c, c.msg) ELSE c

\* the keys arm of select!
OnKey(c, key) ==
    IF c.bar.mode.kind \in {"Ask", "Edit"} THEN CatchError(BarOnKey(c, key))
    ELSE IF key = "q"
    THEN LET c1 == Deinit(c)
         IN  [c1 EXCEPT !.loop = IF c1.res = "ok" THEN "done" ELSE "failed"]
    ELSE IF key = "Tab"
    THEN [c EXCEPT !.focus = IF @ = "FileManager" THEN "TaskManager" ELSE "FileManager"]
    ELSE IF c.focus = "FileManager" THEN CatchError(FmOnKey(c, key))
    ELSE CatchError(TmOnKey(c, key))

\* the ticks arm of select!
OnTick(c, tick) == BarOnTick(c, tick)

\* the watch_events arm of select!
OnWatch(c) == CatchError(OnNotify(c))

\* the shell_events arm of select!; spawned is the outcome of the spawn of a Task
OnShell(c, ev, spawned) ==
    IF ev.kind = "Exit" THEN [c EXCEPT !.loop = "done"]
    ELSE IF ev.kind = "Task" THEN CatchError(NewTask(c, ev.command, ev.rendered, spawned))
    ELSE CatchError(OnShellEvent(c, ev))

-----------------------------------------------------------------------------
(* Construction (App::new, FileManager::new, TaskManager::new).            *)

\* PathBuf::new()
NoDir == <<"">>

\* env::current_dir()
StartDir == Root

TaskPids == 11..(10 + MaxListTasks)

\* FileManager::new when env::current_dir() is d
FileManagerIn(d) ==
    Cd(NewCtx([dir |-> NoDir, all_files |-> <<>>, files |-> <<>>, files_marked |-> <<>>,
               filter |-> "", show_hidden |-> FALSE, selected |-> None, shell_pid |-> 0,
               watched |-> NoDir],
              [tasks |-> <<>>, selected |-> None], [mode |-> Normal], "FileManager"),
       d).fm

\* FileManager::new
FileManagerNew == FileManagerIn(StartDir)

\* TaskManager::new
TaskManagerNew == [tasks |-> <<>>, selected |-> None]

\* StatusBar::new
StatusBarNew == [mode |-> Normal]

NoProc ==
    [child |-> "none", command |-> "", code |-> 0, outbuf |-> <<>>, errbuf |-> <<>>,
     lines |-> 0, so |-> "none", se |-> "none", hold |-> None, se_hold |-> None]

\* channel::tick(Duration::from_secs(2))
TickSecs == 2

Producers == {"keys", "watch", "shell", "task", "ticks"}

ChanNew ==
    [buf |-> [p \in Producers |-> <<>>], hold |-> [p \in Producers |-> None],
     made |-> [p \in Producers |-> 0], taken |-> [p \in Producers |-> 0],
     due |-> TickSecs]

HistNew ==
    [inputs |-> 0, dropped |-> FALSE, target |-> None, moved |-> FALSE, tpid |-> None,
     before |-> None]

Step(op, arg, res, ran, pid, sig) ==
    [op |-> op, arg |-> arg, res |-> res, ran |-> ran, pid |-> pid, sig |-> sig,
     mode |-> status_bar.mode.kind, calls |-> <<>>]

\* the bridge at start: the loop in select!, the reader thread in its open, the
\* shell about to announce its pid and its directory, no signal pending
BridgeNew ==
    [ui |-> 0, pending |-> None, signalled |-> FALSE, wrote |-> FALSE, wfd |-> FALSE,
     shell |-> "send", sig |-> FALSE, rd |-> "open", held |-> None,
     script |-> <<[kind |-> "Pid", pid |-> CHOOSE p \in LiveShellPids : TRUE],
                  [kind |-> "ChangeDirectory", dir |-> StartDir]>>]

InitProgram ==
    /\ fs = DynFiles
    /\ now = 0
    /\ file_manager = FileManagerNew
    /\ task_manager = TaskManagerNew
    /\ status_bar = StatusBarNew
    /\ input_focus = "FileManager"
    /\ loop = "running"
    /\ pipe = <<>>
    /\ usr1 = 0
    /\ received = <<>>
    /\ evq = <<>>
    /\ shell_cwd = StartDir
    /\ watchq = 0
    /\ procs = [pid \in TaskPids |-> NoProc]
    /\ task_sigs = {}
    /\ chan = ChanNew
    /\ bridge = BridgeNew
    /\ hist = HistNew
    /\ last = Step("Init", "", "ok", "none", 0, FALSE)

\* the path selected in the file manager
SelectedPath(fm) ==
    IF fm.files = <<>> \/ SelectedFaults(fm.files, fm.selected) THEN None
    ELSE Some(PathStr(Selected(fm.files, fm.selected)[1].path))

\* the '.' key reaches the file manager's handler
TogglesHidden(op, arg) ==
    /\ op = "Key" /\ arg = "."
    /\ input_focus = "FileManager"
    /\ status_bar.mode.kind \notin {"Ask", "Edit"}

\* the pid of the task selected in the task manager
\* draw on a screen that shows the whole list (offset 0): the marker is written
\* in front of row selected + 1, and row r shows the r-th task from the end
MarkedPid(tm) ==
    IF tm.selected = None \/ tm.selected[1] + 1 > Len(tm.tasks) THEN None
    ELSE Some(Displayed(tm)[tm.selected[1] + 1].pid)

SelectedPid(tm) ==
    IF tm.tasks = <<>> \/ SelectedFaults(tm.tasks, tm.selected) THEN None
    ELSE Some(Selected(tm.tasks, tm.selected)[1].pid)

\* the state one pass of the loop body leaves: the objects and the effects of c
Effects(c, op, arg, pid) ==
    /\ file_manager' = c.fm
    /\ task_manager' = c.tm
    /\ status_bar' = c.bar
    /\ input_focus' = c.focus
    /\ loop' = IF c.res = "panic" THEN "panicked" ELSE c.loop
    /\ pipe' = pipe \o [i \in 1..Len(c.out) |->
                             [pid |-> file_manager.shell_pid, text |-> c.out[i]]]
    /\ usr1' = usr1 + c.usr1
    /\ task_sigs' = task_sigs \cup c.tkill
    /\ hist' = [hist EXCEPT
                   !.dropped = @ \/ c.ran = "dropped",
                   !.target = IF c.bar.mode.kind = "Ask" /\ status_bar.mode.kind # "Ask"
                              THEN SelectedPath(file_manager)
                              ELSE IF c.bar.mode.kind # "Ask" THEN None ELSE @,
                   !.tpid = IF /\ c.bar.mode.kind = "Ask" /\ status_bar.mode.kind # "Ask"
                               /\ input_focus = "TaskManager"
                            THEN SelectedPid(task_manager)
                            ELSE IF "Ask" \in {c.bar.mode.kind, status_bar.mode.kind} THEN @
                            ELSE None,
                   !.before = IF TogglesHidden(op, arg)
                              THEN Some([files |-> file_manager.files,
                                         selected |-> SelectedPath(file_manager)])
                              ELSE None,
                   !.moved = IF op = "Shell" /\ arg = "Pid" THEN FALSE
                             ELSE IF op = "Shell" /\ arg = "ChangeDirectory" THEN TRUE
                             ELSE IF c.ran = "sent" /\ c.fm.dir # file_manager.dir THEN TRUE
                             ELSE @]
    /\ last' = [Step(op, arg, c.res, c.ran, pid, c.tkill # {}) EXCEPT !.calls = c.calls]

\* one pass of the loop body taken as one step: the open of CMDS_TO_RUN returns
\* when the shell's reader has opened it, and the shell reads before the next pass
Commit(c, op, arg, pid) ==
    /\ c.out # <<>> => usr1 < MaxCmds /\ pipe = <<>>
    /\ Effects(c, op, arg, pid)

-----------------------------------------------------------------------------
(* The loop's arms as steps.                                               *)

\* a key is received and handled
KeyStep(key) ==
    /\ loop = "running"
    /\ Commit(OnKey(Ctx, key), "Key", key, 0)

\* the outcomes of Command::spawn for a Task event: an error, or the child's pid
SpawnOutcomes(ev) ==
    IF ev.kind = "Task"
    THEN {None, Some(CHOOSE pid \in TaskPids :
                         /\ procs[pid].child = "none"
                         /\ \A q \in TaskPids : procs[q].child = "none" => pid <= q)}
    ELSE {None}

\* the child and the two reader threads Task::new starts
Spawned(ev, spawned) ==
    IF spawned = None THEN procs
    ELSE [procs EXCEPT ![spawned[1]] =
             [NoProc EXCEPT !.child = "running", !.command = ev.command,
                            !.so = "read", !.se = "read"]]

\* a shell event is received and handled; a Task event spawns a child
ShellStep(ev, spawned) ==
    /\ loop = "running"
    /\ Commit(OnShell(Ctx, ev, spawned), "Shell", ev.kind, 0)
    /\ procs' = Spawned(ev, spawned)

\* a task event is received and handled
TaskStep(ev) ==
    /\ loop = "running"
    /\ Commit(OnEvent(Ctx, ev), "Task", ev.kind, ev.pid)

\* a filesystem notification is received and handled
WatchStep ==
    /\ loop = "running"
    /\ Commit(OnWatch(Ctx), "Watch", "", 0)

-----------------------------------------------------------------------------
(* The shell (fish.rs, shell.rs: the init scripts) and the filesystem.     *)

EvPid(p) == [kind |-> "Pid", pid |-> p]
EvChangeDirectory(d) == [kind |-> "ChangeDirectory", dir |-> d]
EvTask(command) == [kind |-> "Task", command |-> command, rendered |-> command]
EvExit == [kind |-> "Exit"]

\* the text of run(pid, "cd", [dir], false)
CdCmd(d) == FormatCmd("cd", <<PathStr(d)>>, FALSE)

\* the text of run(pid, "rm -r", [file], true)
RmCmd(p) == FormatCmd("rm -r", <<PathStr(p)>>, TRUE)

\* the shell can change into every directory
ShellDirs == Dirs

\* the shell evaluates a command: its directory afterwards
EvalCwd(text) ==
    IF \E d \in ShellDirs : text = CdCmd(d)
    THEN CHOOSE d \in ShellDirs : text = CdCmd(d)
    ELSE shell_cwd

\* the shell evaluates a command: the files afterwards
EvalFs(text) ==
    IF \E p \in fs : text = RmCmd(p)
    THEN fs \ {CHOOSE p \in fs : text = RmCmd(p)}
    ELSE fs

\* the watcher reports a change of dir's entries when dir is watched
Notified(S, T) ==
    IF \E p \in (S \ T) \cup (T \ S) : Front(p) = file_manager.watched THEN 1 ELSE 0

\* the shell events under way: in the pipe, or with the reader thread
InFlight == Len(evq) + Len(chan.hold["shell"]) + Len(chan.buf["shell"])

\* scd send-pid
ShellSendPid(p) ==
    /\ loop = "running"
    /\ hist.inputs < MaxInputs
    /\ InFlight <= 1
    /\ evq' = Append(evq, EvPid(p))
    /\ hist' = [hist EXCEPT !.inputs = @ + 1]
    /\ last' = Step("ShellSendPid", "", "ok", "none", 0, FALSE)
    /\ UNCHANGED <<file_manager, task_manager, status_bar, input_focus, loop, pipe, usr1,
                   received, shell_cwd, fs, watchq, procs, task_sigs, now, chan, bridge>>

\* the user changes the shell's directory: the hook runs scd cd
ShellChdir(d) ==
    /\ loop = "running"
    /\ hist.inputs < MaxInputs
    /\ InFlight <= 1
    /\ d # shell_cwd
    /\ shell_cwd' = d
    /\ evq' = Append(evq, EvChangeDirectory(d))
    /\ hist' = [hist EXCEPT !.inputs = @ + 1]
    /\ last' = Step("ShellChdir", "", "ok", "none", 0, FALSE)
    /\ UNCHANGED <<file_manager, task_manager, status_bar, input_focus, loop, pipe, usr1,
                   received, fs, watchq, procs, task_sigs, now, chan, bridge>>

\* the SIGUSR1 handler: scd get-cmd reads one command and the shell evaluates it
ShellRead ==
    /\ pipe # <<>>
    /\ InFlight <= 1
    /\ received' = Append(received, Head(pipe).pid)
    /\ pipe' = Tail(pipe)
    /\ shell_cwd' = EvalCwd(Head(pipe).text)
    /\ evq' = IF shell_cwd' # shell_cwd THEN Append(evq, EvChangeDirectory(shell_cwd'))
              ELSE evq
    /\ fs' = EvalFs(Head(pipe).text)
    /\ watchq' = watchq + Notified(fs, fs')
    /\ last' = Step("ShellRead", "", "ok", "none", 0, FALSE)
    /\ UNCHANGED <<file_manager, task_manager, status_bar, input_focus, loop, usr1,
                   procs, task_sigs, now, chan, hist, bridge>>

\* another process creates or removes a file
FsChange(p) ==
    /\ loop = "running"
    /\ hist.inputs < MaxInputs
    /\ fs' = IF p \in fs THEN fs \ {p} ELSE fs \cup {p}
    /\ watchq' = watchq + Notified(fs, fs')
    /\ hist' = [hist EXCEPT !.inputs = @ + 1]
    /\ last' = Step("FsChange", "", "ok", "none", 0, FALSE)
    /\ UNCHANGED <<file_manager, task_manager, status_bar, input_focus, loop, pipe, usr1,
                   received, evq, shell_cwd, procs, task_sigs, now, chan, bridge>>

-----------------------------------------------------------------------------
(* The file manager with its shell: keys, shell events, notifications.     *)

Keys == {"l", "h", "j", "d", "y", "q"}

Key(k) ==
    /\ KeyStep(k)
    /\ UNCHANGED <<received, evq, shell_cwd, fs, watchq, procs, now, chan, bridge>>

ShellEvent ==
    /\ evq # <<>>
    /\ \E spawned \in SpawnOutcomes(Head(evq)) : ShellStep(Head(evq), spawned)
    /\ evq' = Tail(evq)
    /\ UNCHANGED <<received, shell_cwd, fs, watchq, now, chan, bridge>>

Watch ==
    /\ watchq > 0
    /\ WatchStep
    /\ watchq' = watchq - 1
    /\ UNCHANGED <<received, evq, shell_cwd, fs, procs, now, chan, bridge>>

Init == InitProgram

Next ==
    \/ \E k \in Keys : Key(k)
    \/ ShellEvent
    \/ Watch
    \/ \E p \in PidValues : ShellSendPid(p)
    \/ \E d \in ShellDirs : ShellChdir(d)
    \/ ShellRead
    \/ \E p \in DynFiles : FsChange(p)

Spec == Init /\ [][Next]_vars

-----------------------------------------------------------------------------
(* Properties of the shell bridge and of the prompts.                      *)

\* C1: a run() made while no shell pid is known (pid <= 0) writes nothing to the
\* commands pipe and sends no signal, and nothing is queued: after a later Pid
\* event the shell never reads a command that was requested before the attach.
NoCommandBeforeAttach ==
    /\ \A i \in 1..Len(pipe) : pipe[i].pid > 0
    /\ \A i \in 1..Len(received) : received[i] > 0
    /\ usr1 = Len(pipe) + Len(received)

\* a request was dropped, the shell attached, and a later request was delivered
AttachedAfterDrop ==
    /\ hist.dropped
    /\ file_manager.shell_pid \in LiveShellPids
    /\ received # <<>>

DeleteRemovesPromptedPath ==
    [][/\ (/\ status_bar.mode.kind = "Ask"
           /\ status_bar.mode.on_yes.fn = "rm"
           /\ last'.op = "Key" /\ last'.arg = "y" /\ last'.ran = "sent")
          => /\ hist.target # None
             /\ pipe' = Append(pipe, [pid |-> file_manager.shell_pid,
                                      text |-> FormatCmd("rm -r", <<hist.target[1]>>, TRUE)])
       /\ last'.op = "ShellRead" => \A p \in fs \ fs' : Head(pipe).text = RmCmd(p)]_vars

\* 'y' sent the delete of /f while something else was selected
DeletedWhileElsewhere ==
    /\ last.op = "Key" /\ last.arg = "y" /\ last.ran = "sent"
    /\ pipe # <<>>
    /\ Last(pipe).text = RmCmd(<<"f">>)
    /\ SelectedPath(file_manager) # Some("/f")

-----------------------------------------------------------------------------
(* The event channels (crossbeam): a channel of capacity n buffers n       *)
(* messages; a sender that finds no room blocks holding its message.       *)

\* bounded(0) for keys, shell events, watch events and task events;
\* channel::tick is a channel of capacity 1
ChanCapBuffered(p) == 1

ChanCap(p) == IF p = "ticks" THEN 1 ELSE 0

Room(ch, p) == Len(ch.buf[p]) < ChanCap(p)

\* tx.send(e) by the one thread of producer p
ChanSend(ch, p, e) ==
    [ch EXCEPT !.made[p] = @ + 1,
               !.buf[p] = IF Room(ch, p) THEN Append(@, e) ELSE @,
               !.hold[p] = IF Room(ch, p) THEN @ ELSE Some(e)]

\* select! finds producer p ready
Ready(ch, p) == ch.buf[p] # <<>> \/ ch.hold[p] # None

\* the message recv returns
Received(ch, p) == IF ch.buf[p] # <<>> THEN Head(ch.buf[p]) ELSE ch.hold[p][1]

\* recv: the buffer moves up, a blocked sender is released
ChanRecv(ch, p) ==
    [ch EXCEPT !.taken[p] = @ + 1,
               !.buf[p] = IF @ # <<>> THEN Tail(@) \o ch.hold[p] ELSE @,
               !.hold[p] = None]

-----------------------------------------------------------------------------
(* The children of the tasks and their reader threads (Task::new).         *)

EvStdout(pid, line) == [kind |-> "Stdout", pid |-> pid, line |-> line]
EvStderr(pid, line) == [kind |-> "Stderr", pid |-> pid, line |-> line]
EvTaskExit(pid, code) == [kind |-> "Exit", pid |-> pid, code |-> code]

\* what a child writes between two '\r', or up to the end of its output
Chunks == OutLines \cup {BadUtf8}

\* the exit codes of a child: the interpreter reports a command it cannot find
ExitCodes(command) == IF FirstWord(command) \in Installed THEN {0, 1} ELSE {127}

\* the shell's key binding announces a task: at most budget inputs, cap tasks
Announce(command, budget, cap) ==
    /\ loop = "running"
    /\ hist.inputs < budget
    /\ InFlight <= 1
    /\ Cardinality({pid \in TaskPids : procs[pid].child # "none"})
           + Len(SelectSeq(evq \o chan.hold["shell"] \o chan.buf["shell"],
                           LAMBDA e : e.kind = "Task")) < cap
    /\ evq' = Append(evq, EvTask(command))
    /\ hist' = [hist EXCEPT !.inputs = @ + 1]
    /\ last' = Step("ShellRunTask", "", "ok", "none", 0, FALSE)
    /\ UNCHANGED <<file_manager, task_manager, status_bar, input_focus, loop, pipe, usr1,
                   received, shell_cwd, fs, watchq, procs, task_sigs, now, chan, bridge>>

ShellRunTask(command) == Announce(command, MaxInputs, MaxTasks)

\* a child writes a chunk to its stdout or its stderr
ChildWrite(pid, stream, chunk) ==
    /\ loop = "running"
    /\ procs[pid].child = "running"
    /\ procs[pid].lines < MaxLines
    /\ procs' = [procs EXCEPT ![pid].lines = @ + 1,
                              ![pid].outbuf = IF stream = "stdout" THEN Append(@, chunk) ELSE @,
                              ![pid].errbuf = IF stream = "stderr" THEN Append(@, chunk) ELSE @]
    /\ last' = Step("ChildWrite", stream, "ok", "none", pid, FALSE)
    /\ UNCHANGED <<file_manager, task_manager, status_bar, input_focus, loop, pipe, usr1,
                   received, evq, shell_cwd, fs, watchq, task_sigs, now, chan, hist, bridge>>

\* a child terminates, of itself or by a signal: its pipes reach end of file
ChildExit(pid, code) ==
    /\ loop = "running"
    /\ procs[pid].child = "running"
    /\ code \in ExitCodes(procs[pid].command)
    /\ procs' = [procs EXCEPT ![pid].child = "zombie", ![pid].code = code]
    /\ last' = Step("ChildExit", "", "ok", "none", pid, FALSE)
    /\ UNCHANGED <<file_manager, task_manager, status_bar, input_focus, loop, pipe, usr1,
                   received, evq, shell_cwd, fs, watchq, task_sigs, now, chan, hist, bridge>>

\* the stdout thread: the next chunk is decoded (unwrap) and sent
StdoutRead(pid) ==
    /\ loop = "running"
    /\ procs[pid].so = "read"
    /\ procs[pid].outbuf # <<>>
    /\ LET chunk == Head(procs[pid].outbuf)
           room == Room(chan, "task")
       IN  IF chunk = BadUtf8
           THEN /\ procs' = [procs EXCEPT ![pid].outbuf = Tail(@), ![pid].so = "panicked"]
                /\ chan' = chan
           ELSE /\ procs' = [procs EXCEPT ![pid].outbuf = Tail(@),
                                          ![pid].so = IF room THEN "read" ELSE "send",
                                          ![pid].hold = IF room THEN None ELSE Some(chunk)]
                /\ chan' = [chan EXCEPT !.made["task"] = @ + 1,
                                        !.buf["task"] = IF room THEN Append(@, EvStdout(pid, chunk))
                                                        ELSE @]
    /\ last' = Step("StdoutRead", "", "ok", "none", pid, FALSE)
    /\ UNCHANGED <<file_manager, task_manager, status_bar, input_focus, loop, pipe, usr1,
                   received, evq, shell_cwd, fs, watchq, task_sigs, now, hist, bridge>>

\* the stdout thread at end of file: child.wait(), then the Exit event is sent
StdoutEof(pid) ==
    /\ loop = "running"
    /\ procs[pid].so = "read"
    /\ procs[pid].outbuf = <<>>
    /\ procs[pid].child = "zombie"
    /\ LET room == Room(chan, "task")
       IN  /\ procs' = [procs EXCEPT ![pid].child = "reaped",
                                     ![pid].so = IF room THEN "done" ELSE "exit"]
           /\ chan' = [chan EXCEPT !.made["task"] = @ + 1,
                                   !.buf["task"] =
                                       IF room THEN Append(@, EvTaskExit(pid, procs[pid].code))
                                       ELSE @]
    /\ last' = Step("StdoutEof", "", "ok", "none", pid, FALSE)
    /\ UNCHANGED <<file_manager, task_manager, status_bar, input_focus, loop, pipe, usr1,
                   received, evq, shell_cwd, fs, watchq, task_sigs, now, hist, bridge>>

\* the stderr thread: the next chunk is decoded (unwrap) and sent
StderrRead(pid) ==
    /\ loop = "running"
    /\ procs[pid].se = "read"
    /\ procs[pid].errbuf # <<>>
    /\ LET chunk == Head(procs[pid].errbuf)
           room == Room(chan, "task")
       IN  IF chunk = BadUtf8
           THEN /\ procs' = [procs EXCEPT ![pid].errbuf = Tail(@), ![pid].se = "panicked"]
                /\ chan' = chan
           ELSE /\ procs' = [procs EXCEPT ![pid].errbuf = Tail(@),
                                          ![pid].se = IF room THEN "read" ELSE "send",
                                          ![pid].se_hold = IF room THEN None ELSE Some(chunk)]
                /\ chan' = [chan EXCEPT !.made["task"] = @ + 1,
                                        !.buf["task"] = IF room THEN Append(@, EvStderr(pid, chunk))
                                                        ELSE @]
    /\ last' = Step("StderrRead", "", "ok", "none", pid, FALSE)
    /\ UNCHANGED <<file_manager, task_manager, status_bar, input_focus, loop, pipe, usr1,
                   received, evq, shell_cwd, fs, watchq, task_sigs, now, hist, bridge>>

\* the events the blocked reader threads hold
Held ==
    {EvStdout(pid, procs[pid].hold[1]) : pid \in {q \in TaskPids : procs[q].so = "send"}}
        \cup {EvTaskExit(pid, procs[pid].code) : pid \in {q \in TaskPids : procs[q].so = "exit"}}
        \cup {EvStderr(pid, procs[pid].se_hold[1]) : pid \in {q \in TaskPids : procs[q].se = "send"}}

\* the reader thread whose send has returned goes on
Released(ev) ==
    IF ev.kind = "Stdout" THEN [procs EXCEPT ![ev.pid].so = "read", ![ev.pid].hold = None]
    ELSE IF ev.kind = "Exit" THEN [procs EXCEPT ![ev.pid].so = "done"]
    ELSE [procs EXCEPT ![ev.pid].se = "read", ![ev.pid].se_hold = None]

\* recv(self.task_events): a buffered event, or the event of a blocked sender
TaskEvent ==
    /\ chan.buf["task"] # <<>> \/ Held # {}
    /\ IF chan.buf["task"] # <<>>
       THEN /\ TaskStep(Head(chan.buf["task"]))
            /\ chan' = [chan EXCEPT !.taken["task"] = @ + 1, !.buf["task"] = Tail(@)]
            /\ procs' = procs
       ELSE \E ev \in Held :
                /\ TaskStep(ev)
                /\ chan' = [chan EXCEPT !.taken["task"] = @ + 1]
                /\ procs' = Released(ev)
    /\ UNCHANGED <<received, evq, shell_cwd, fs, watchq, now, bridge>>

-----------------------------------------------------------------------------
(* The task supervisor: tasks announced by the shell, their children, the  *)
(* keys of the task manager.                                               *)

TaskKeys == {"Tab", "z", "t", "c", "y", "d"}

NextTasks ==
    \/ \E k \in TaskKeys : Key(k)
    \/ ShellEvent
    \/ \E command \in Commands : ShellRunTask(command)
    \/ \E pid \in TaskPids, stream \in {"stdout", "stderr"}, chunk \in Chunks :
           ChildWrite(pid, stream, chunk)
    \/ \E pid \in TaskPids, code \in {0, 1, 127} : ChildExit(pid, code)
    \/ \E pid \in TaskPids : StdoutRead(pid)
    \/ \E pid \in TaskPids : StdoutEof(pid)
    \/ \E pid \in TaskPids : StderrRead(pid)
    \/ TaskEvent

SpecTasks == Init /\ [][NextTasks]_vars

-----------------------------------------------------------------------------
(* The producers and the loop's select!, with the hand-over of every event *)
(* explicit.                                                               *)

\* the ticks arm: the tick carries the instant it was due
TickStep(tick) ==
    /\ loop = "running"
    /\ Commit(OnTick(Ctx, tick), "Tick", "", 0)

EventKeys == {"j"}

\* the key thread reads a key from stdin and sends it
KeyRead(k) ==
    /\ loop = "running"
    /\ chan.hold["keys"] = None
    /\ chan.made["keys"] < MaxProduced
    /\ chan' = ChanSend(chan, "keys", k)
    /\ last' = Step("KeyRead", "", "ok", "none", 0, FALSE)
    /\ UNCHANGED <<file_manager, task_manager, status_bar, input_focus, loop, pipe, usr1,
                   received, evq, shell_cwd, fs, watchq, procs, task_sigs, now, hist, bridge>>

\* recv(self.keys)
RecvKey ==
    /\ Ready(chan, "keys")
    /\ KeyStep(Received(chan, "keys"))
    /\ chan' = ChanRecv(chan, "keys")
    /\ UNCHANGED <<received, evq, shell_cwd, fs, watchq, procs, now, bridge>>

\* the watcher's callback is called with a notification and sends it
WatchCallback ==
    /\ loop = "running"
    /\ watchq > 0
    /\ chan.hold["watch"] = None
    /\ watchq' = watchq - 1
    /\ chan' = ChanSend(chan, "watch", "notify")
    /\ last' = Step("WatchCallback", "", "ok", "none", 0, FALSE)
    /\ UNCHANGED <<file_manager, task_manager, status_bar, input_focus, loop, pipe, usr1,
                   received, evq, shell_cwd, fs, procs, task_sigs, now, hist, bridge>>

\* recv(self.watch_events)
RecvWatch ==
    /\ Ready(chan, "watch")
    /\ WatchStep
    /\ chan' = ChanRecv(chan, "watch")
    /\ UNCHANGED <<received, evq, shell_cwd, fs, watchq, procs, now, bridge>>

\* receive_events: the reader thread reads an event from SHELL_EVENTS and sends it
ReceiveEvents ==
    /\ loop = "running"
    /\ evq # <<>>
    /\ chan.hold["shell"] = None
    /\ evq' = Tail(evq)
    /\ chan' = ChanSend(chan, "shell", Head(evq))
    /\ last' = Step("ReceiveEvents", "", "ok", "none", 0, FALSE)
    /\ UNCHANGED <<file_manager, task_manager, status_bar, input_focus, loop, pipe, usr1,
                   received, shell_cwd, fs, watchq, procs, task_sigs, now, hist, bridge>>

\* recv(self.shell_events)
RecvShell ==
    /\ Ready(chan, "shell")
    /\ \E spawned \in SpawnOutcomes(Received(chan, "shell")) :
           ShellStep(Received(chan, "shell"), spawned)
    /\ chan' = ChanRecv(chan, "shell")
    /\ UNCHANGED <<received, evq, shell_cwd, fs, watchq, now, bridge>>

\* a period of the timer ends: the tick is kept if the channel has room
TimePasses ==
    /\ loop = "running"
    /\ chan.made["ticks"] < MaxProduced
    /\ now' = now + TickSecs
    /\ chan' = [chan EXCEPT !.made["ticks"] = @ + 1,
                            !.buf["ticks"] = IF Room(chan, "ticks") THEN Append(@, now') ELSE @]
    /\ last' = Step("TimePasses", "", "ok", "none", 0, FALSE)
    /\ UNCHANGED <<file_manager, task_manager, status_bar, input_focus, loop, pipe, usr1,
                   received, evq, shell_cwd, fs, watchq, procs, task_sigs, hist, bridge>>

\* recv(self.ticks)
RecvTick ==
    /\ Ready(chan, "ticks")
    /\ TickStep(Received(chan, "ticks"))
    /\ chan' = ChanRecv(chan, "ticks")
    /\ UNCHANGED <<received, evq, shell_cwd, fs, watchq, procs, now, bridge>>

NextEvents ==
    \/ \E k \in EventKeys : KeyRead(k)
    \/ RecvKey
    \/ \E p \in DynFiles : FsChange(p)
    \/ WatchCallback
    \/ RecvWatch
    \/ \E command \in Commands : ShellRunTask(command)
    \/ ReceiveEvents
    \/ RecvShell
    \/ \E pid \in TaskPids, stream \in {"stdout", "stderr"}, chunk \in Chunks :
           ChildWrite(pid, stream, chunk)
    \/ \E pid \in TaskPids, code \in {0, 1, 127} : ChildExit(pid, code)
    \/ \E pid \in TaskPids : StdoutRead(pid)
    \/ \E pid \in TaskPids : StdoutEof(pid)
    \/ \E pid \in TaskPids : StderrRead(pid)
    \/ TaskEvent
    \/ TimePasses
    \/ RecvTick

SpecEvents == Init /\ [][NextEvents]_vars

-----------------------------------------------------------------------------
(* Properties of the task supervisor and of the prompts.                   *)

\* the status of the task of pid in a task manager, if it is listed
StatusOf(tm, pid) ==
    LET at == FindTask(tm.tasks, pid)
    IN  IF at = None THEN None ELSE Some(tm.tasks[at[1] + 1].status)

\* C3: the status of a task only moves forward: Running to Running, Running to
\* Stopped, or to Exited; once Exited it never changes.
StatusMovesForward ==
    [][\A pid \in TaskPids :
          LET old == StatusOf(task_manager, pid)
              new == StatusOf(task_manager', pid)
          IN  (old # None /\ new # None /\ new # old) =>
                  \/ old[1].kind = "Running" /\ new[1].kind \in {"Running", "Stopped"}
                  \/ old[1].kind # "Exited" /\ new[1].kind = "Exited"]_vars

\* C5: in Ask mode a key other than 'y' returns the status bar to Normal and does
\* nothing else: no command is written, no signal is sent to the shell or to a
\* task, the file manager and the task manager are as before.
CancelDoesNothing ==
    [][(status_bar.mode.kind = "Ask" /\ last'.op = "Key" /\ last'.arg # "y") =>
          /\ status_bar'.mode = Normal
          /\ last'.res = "ok" /\ last'.ran = "none" /\ ~last'.sig
          /\ pipe' = pipe /\ usr1' = usr1 /\ task_sigs' = task_sigs
          /\ file_manager' = file_manager
          /\ task_manager' = task_manager
          /\ procs' = procs]_vars

\* a kill prompt was cancelled while its task was still running
KillCancelled ==
    /\ last.op = "Key" /\ last.arg # "y" /\ last.mode = "Ask"
    /\ status_bar.mode = Normal
    /\ input_focus = "TaskManager"
    /\ \E pid \in TaskPids : procs[pid].child = "running"
    /\ task_sigs = {}

\* C8: the child of every task that terminates is waited on and its Exit event is
\* sent: a terminated child has its stdout thread on the way to child.wait().
TerminatedChildIsReaped ==
    \A pid \in TaskPids : procs[pid].child = "zombie" => procs[pid].so \in {"read", "send"}

\* the Exit event of pid has been handled
ExitHandled(pid) ==
    /\ procs[pid].so = "done"
    /\ \A i \in 1..Len(chan.buf["task"]) : chan.buf["task"][i] # EvTaskExit(pid, procs[pid].code)

\* C9: Exit is terminal: no Stdout or Stderr event of a pid is handled after the
\* Exit event of that pid.
NoOutputAfterExit ==
    [][(last'.op = "Task" /\ last'.arg \in {"Stdout", "Stderr"}) => ~ExitHandled(last'.pid)]_vars

\* the command of a Task event cannot be launched
CannotLaunch(ev) == ev.kind = "Task" /\ FirstWord(ev.command) \notin Installed

Settled == evq = <<>> /\ pipe = <<>> /\ loop = "running"

\* C6: with a shell attached, after a directory change made in the UI ('l' on a
\* directory, 'h') or in the shell, the two directories converge: once the
\* change has been handled and nothing is under way, the UI's directory is the
\* shell's working directory.
DirectoriesConverge ==
    (file_manager.shell_pid \in LiveShellPids /\ hist.moved /\ Settled)
        => file_manager.dir = shell_cwd

\* the events of producer p that wait for the loop: with a blocked sender, or
\* in the channel
Waiting(p) ==
    Len(chan.buf[p]) + IF p = "task" THEN Cardinality(Held) ELSE Len(chan.hold[p])

-----------------------------------------------------------------------------
(* The task list: several tasks, their exits and the keys of the task      *)
(* manager; the children write nothing.                                    *)

ListKeys == {"Tab", "z", "j", "t", "9", "y"}

ListCommands == {"curl -O u"}

ListRunTask(command) == Announce(command, MaxListTasks, MaxListTasks)

\* the user turns to the task manager and stays with it
ListKey(k) ==
    /\ input_focus = "FileManager" => k = "Tab"
    /\ Key(k)

NextList ==
    \/ \E k \in ListKeys : ListKey(k)
    \/ ShellEvent
    \/ \E command \in ListCommands : ListRunTask(command)
    \/ \E pid \in TaskPids, code \in {0, 1} : ChildExit(pid, code)
    \/ \E pid \in TaskPids : StdoutEof(pid)
    \/ TaskEvent

SpecList == Init /\ [][NextList]_vars

-----------------------------------------------------------------------------
(* The prompts of the file manager: the keys that list and filter, the     *)
(* keys typed into an Edit prompt, and the files that other processes      *)
(* change.                                                                 *)

ListingKeys == {"/", "r", ".", "j"}

TypedKeys == {"a", "Char(e-acute)", "Left", "Right", "Home", "End", "Backspace", "Delete",
              "Ctrl-u", "Enter", "Esc"}

\* the user types into the prompt while it is open, up to MaxText bytes
EditKey(k) ==
    /\ IF status_bar.mode.kind = "Edit"
       THEN /\ k \in TypedKeys
            /\ KeyChar(k) # None => Len(status_bar.mode.text) + Len(KeyChar(k)[1]) <= MaxText
       ELSE k \in ListingKeys
    /\ Key(k)

NextEdit ==
    \/ \E k \in ListingKeys \cup TypedKeys : EditKey(k)
    \/ \E p \in DynFiles : FsChange(p)
    \/ Watch

SpecEdit == Init /\ [][NextEdit]_vars

-----------------------------------------------------------------------------
(* The listing of a directory of any content under the filter and the      *)
(* hidden-files switch.                                                    *)

\* the regular files the start directory may hold
FilterFiles == {<<".b">>, <<"B">>, <<"ab">>, <<"c">>}

FilterListKeys == {"/", ".", "j"}

FilterTypedKeys == {"a", "b", "B", "Backspace", "Enter", "Esc"}

\* App::new in a directory that holds any of the files
InitFilter ==
    /\ fs \in SUBSET FilterFiles
    /\ now = 0
    /\ file_manager = FileManagerNew
    /\ task_manager = TaskManagerNew
    /\ status_bar = StatusBarNew
    /\ input_focus = "FileManager"
    /\ loop = "running"
    /\ pipe = <<>>
    /\ usr1 = 0
    /\ received = <<>>
    /\ evq = <<>>
    /\ shell_cwd = StartDir
    /\ watchq = 0
    /\ procs = [pid \in TaskPids |-> NoProc]
    /\ task_sigs = {}
    /\ chan = ChanNew
    /\ bridge = BridgeNew
    /\ hist = HistNew
    /\ last = Step("Init", "", "ok", "none", 0, FALSE)

\* the user moves in the listing, toggles hidden files and types a filter
FilterKey(k) ==
    /\ IF status_bar.mode.kind = "Edit"
       THEN /\ k \in FilterTypedKeys
            /\ KeyChar(k) # None => Len(status_bar.mode.text) + Len(KeyChar(k)[1]) <= MaxText
       ELSE k \in FilterListKeys
    /\ Key(k)

NextFilter == \E k \in FilterListKeys \cup FilterTypedKeys : FilterKey(k)

SpecFilter == InitFilter /\ [][NextFilter]_vars

-----------------------------------------------------------------------------
(* The file manager before any shell has announced its pid.                *)

NoShellListKeys == {"l", "j", "r", "d", "y"}

NoShellTypedKeys == {"a", "Backspace", "Left", "Enter", "Esc"}

\* the user works in the listing and in the prompts; no shell event arrives
NoShellKey(k) ==
    /\ IF status_bar.mode.kind = "Edit"
       THEN /\ k \in NoShellTypedKeys
            /\ KeyChar(k) # None => Len(status_bar.mode.text) + Len(KeyChar(k)[1]) <= MaxText
       ELSE k \in NoShellListKeys
    /\ Key(k)

NextNoShell == \E k \in NoShellListKeys \cup NoShellTypedKeys : NoShellKey(k)

SpecNoShell == Init /\ [][NextNoShell]_vars

-----------------------------------------------------------------------------
(* The two named pipes statement by statement: the loop thread inside      *)
(* run(), the shell between its prompt, scd get-cmd and its hooks, and the *)
(* thread of receive_events.  A FIFO is opened when both ends are there;   *)
(* what is left in it when the last end closes is discarded.               *)

\* run() after the command is formatted: its statements in order
RunStatementSignalLast(i) == IF i = 1 THEN "open" ELSE IF i = 2 THEN "write" ELSE "kill"

RunStatement(i) == IF i = 1 THEN "kill" ELSE IF i = 2 THEN "open" ELSE "write"

\* where the loop thread is: in select!, or before a statement of run()
RunAt == IF bridge.ui = 0 THEN "select" ELSE RunStatement(bridge.ui)

\* scd get-cmd has CMDS_TO_RUN open for reading, or waits in that open
ReaderPresent == bridge.shell \in {"get_open", "get_read"}

\* run() has CMDS_TO_RUN open for writing, or waits in that open
WriterPresent == bridge.wfd \/ RunAt = "open"

\* receive_events has SHELL_EVENTS open for reading, or waits in that open
EventReaderPresent == bridge.rd \in {"open", "read"}

\* the commands of c as they lie in the pipe
Written(c) == [i \in 1..Len(c.out) |-> [pid |-> file_manager.shell_pid, text |-> c.out[i]]]

\* a key is taken from select! and handled up to the first statement of run()
\* that touches the shell; a handler that does not reach it is done at once
BridgeKey(k) ==
    /\ loop = "running"
    /\ bridge.ui = 0
    /\ LET c == OnKey(Ctx, k)
       IN  IF c.out # <<>>
           THEN /\ usr1 < MaxCmds
                /\ bridge' = [bridge EXCEPT !.ui = 1, !.pending = Some([c |-> c, key |-> k]),
                                            !.signalled = FALSE, !.wrote = FALSE]
                /\ last' = Step("Run", "enter", "ok", "none", 0, FALSE)
                /\ UNCHANGED <<file_manager, task_manager, status_bar, input_focus, loop,
                               pipe, usr1, task_sigs, hist>>
           ELSE /\ Effects(c, "Key", k, 0)
                /\ bridge' = bridge
    /\ UNCHANGED <<received, evq, shell_cwd, fs, watchq, procs, now, chan>>

\* the loop thread executes the next statement of run(); after the last one
\* run() returns and the handler's changes are in place.  The open returns
\* together with the open of a reader that waits for it.  A write that finds
\* no reader fails with EPIPE, which catch_error! shows.
LoopRun ==
    /\ bridge.ui > 0
    /\ LET stmt == RunStatement(bridge.ui)
           p == bridge.pending[1]
           broken == stmt = "write" /\ ~ReaderPresent
           final == bridge.ui = 3 \/ broken
           c == IF broken
                THEN CatchError([Err(p.c, "Broken pipe") EXCEPT !.ran = "unreachable"])
                ELSE p.c
       IN  /\ stmt = "open" => ReaderPresent
           /\ bridge' = [bridge EXCEPT
                            !.ui = IF final THEN 0 ELSE @ + 1,
                            !.pending = IF final THEN None ELSE @,
                            !.sig = @ \/ stmt = "kill",
                            !.signalled = @ \/ stmt = "kill",
                            !.wrote = @ \/ (stmt = "write" /\ ~broken),
                            !.wfd = IF final THEN FALSE ELSE @ \/ stmt = "open",
                            !.shell = IF stmt = "open" /\ @ = "get_open" THEN "get_read"
                                      ELSE @]
           /\ IF final
              THEN Effects([c EXCEPT !.out = IF stmt = "write" /\ ~broken THEN @ ELSE <<>>,
                                     !.usr1 = IF stmt = "kill" THEN 1 ELSE 0],
                           "Key", p.key, 0)
              ELSE /\ pipe' = IF stmt = "write" THEN pipe \o Written(c) ELSE pipe
                   /\ usr1' = IF stmt = "kill" THEN usr1 + 1 ELSE usr1
                   /\ last' = Step("Run", stmt, "ok", "none", 0, FALSE)
                   /\ UNCHANGED <<file_manager, task_manager, status_bar, input_focus, loop,
                                  task_sigs, hist>>
    /\ UNCHANGED <<received, evq, shell_cwd, fs, watchq, procs, now, chan>>

\* the shell_events arm of select!: the reader thread's send is taken
LoopShellEvent ==
    /\ loop = "running"
    /\ bridge.ui = 0
    /\ bridge.rd = "send"
    /\ Effects(OnShell(Ctx, bridge.held[1], None), "Shell", bridge.held[1].kind, 0)
    /\ bridge' = [bridge EXCEPT !.rd = "open", !.held = None]
    /\ UNCHANGED <<received, evq, shell_cwd, fs, watchq, procs, now, chan>>

\* a payload that is not the YAML of an Event
EvMalformed == [kind |-> "Malformed"]

\* serde_yaml::from_str: the event of a payload, or an error
FromStr(payload) == IF payload = EvMalformed THEN None ELSE Some(payload)

\* the Err that ends receive_events, and with it the only Sender of the channel
ReaderErr(cause) == Some([kind |-> "Err", cause |-> cause])

\* receive_events that drops a payload it cannot decode and reads on
ReaderReadSkips ==
    /\ bridge.rd = "read"
    /\ evq # <<>>
    /\ bridge' = IF FromStr(Head(evq)) = None
                 THEN [bridge EXCEPT !.rd = "open", !.held = None]
                 ELSE [bridge EXCEPT !.rd = "send", !.held = FromStr(Head(evq))]
    /\ evq' = <<>>
    /\ last' = Step("ReaderRead", "", IF FromStr(Head(evq)) = None THEN "err" ELSE "ok",
                    "none", 0, FALSE)
    /\ UNCHANGED <<file_manager, task_manager, status_bar, input_focus, loop, pipe, usr1,
                   received, shell_cwd, fs, watchq, procs, task_sigs, now, chan, hist>>

\* receive_events: read(fifo) returns one payload and the fifo is dropped; the
\* thread decodes it and waits in tx.send for the loop to take the event; a
\* payload that does not decode ends the thread with the error
ReaderRead ==
    /\ bridge.rd = "read"
    /\ evq # <<>>
    /\ bridge' = IF FromStr(Head(evq)) = None
                 THEN [bridge EXCEPT !.rd = "dead", !.held = ReaderErr("payload")]
                 ELSE [bridge EXCEPT !.rd = "send", !.held = FromStr(Head(evq))]
    /\ evq' = <<>>
    /\ last' = Step("ReaderRead", "", IF FromStr(Head(evq)) = None THEN "err" ELSE "ok",
                    "none", 0, FALSE)
    /\ UNCHANGED <<file_manager, task_manager, status_bar, input_focus, loop, pipe, usr1,
                   received, shell_cwd, fs, watchq, procs, task_sigs, now, chan, hist>>

\* send_event in the shell: the open returns when receive_events has the fifo
\* open; the event is written and the shell goes on
ShellSendEvent ==
    /\ bridge.shell = "send"
    /\ EventReaderPresent
    /\ evq' = Append(evq, Head(bridge.script))
    /\ bridge' = [bridge EXCEPT !.script = Tail(@),
                                !.shell = IF Tail(bridge.script) = <<>> THEN "prompt"
                                          ELSE "send",
                                !.rd = "read"]
    /\ last' = Step("ShellSendEvent", "", "ok", "none", 0, FALSE)
    /\ UNCHANGED <<file_manager, task_manager, status_bar, input_focus, loop, pipe, usr1,
                   received, shell_cwd, fs, watchq, procs, task_sigs, now, chan, hist>>

\* the user changes the shell's directory at the prompt: the hook runs scd cd
ShellUserCd(d) ==
    /\ bridge.shell = "prompt"
    /\ hist.inputs < MaxInputs
    /\ d # shell_cwd
    /\ shell_cwd' = d
    /\ bridge' = [bridge EXCEPT !.shell = "send", !.script = <<EvChangeDirectory(d)>>]
    /\ hist' = [hist EXCEPT !.inputs = @ + 1]
    /\ last' = Step("ShellUserCd", "", "ok", "none", 0, FALSE)
    /\ UNCHANGED <<file_manager, task_manager, status_bar, input_focus, loop, pipe, usr1,
                   received, evq, fs, watchq, procs, task_sigs, now, chan>>

\* the shell is at its prompt with SIGUSR1 pending: the handler starts scd get-cmd
ShellSignalled ==
    /\ bridge.shell = "prompt"
    /\ bridge.sig
    /\ bridge' = [bridge EXCEPT !.shell = "get_open", !.sig = FALSE]
    /\ last' = Step("ShellSignalled", "", "ok", "none", 0, FALSE)
    /\ UNCHANGED <<file_manager, task_manager, status_bar, input_focus, loop, pipe, usr1,
                   received, evq, shell_cwd, fs, watchq, procs, task_sigs, now, chan, hist>>

\* receive_command: File::open returns when run() has the fifo open
ShellGetOpen ==
    /\ bridge.shell = "get_open"
    /\ WriterPresent
    /\ bridge' = [bridge EXCEPT !.shell = "get_read"]
    /\ last' = Step("ShellGetOpen", "", "ok", "none", 0, FALSE)
    /\ UNCHANGED <<file_manager, task_manager, status_bar, input_focus, loop, pipe, usr1,
                   received, evq, shell_cwd, fs, watchq, procs, task_sigs, now, chan, hist>>

\* receive_command: read(file) returns one command, the file is dropped and the
\* shell evaluates the command; a cd fires the hook.  At end of file scd get-cmd
\* fails and nothing is evaluated.
ShellGetRead ==
    /\ bridge.shell = "get_read"
    /\ pipe # <<>> \/ ~WriterPresent
    /\ IF pipe # <<>>
       THEN /\ received' = Append(received, Head(pipe).pid)
            /\ pipe' = IF WriterPresent THEN Tail(pipe) ELSE <<>>
            /\ shell_cwd' = EvalCwd(Head(pipe).text)
            /\ fs' = EvalFs(Head(pipe).text)
            /\ bridge' = IF shell_cwd' # shell_cwd
                         THEN [bridge EXCEPT !.shell = "send",
                                             !.script = <<EvChangeDirectory(shell_cwd')>>]
                         ELSE [bridge EXCEPT !.shell = "prompt"]
       ELSE /\ bridge' = [bridge EXCEPT !.shell = "prompt"]
            /\ UNCHANGED <<received, pipe, shell_cwd, fs>>
    /\ watchq' = watchq
    /\ last' = Step("ShellGetRead", "", "ok", "none", 0, FALSE)
    /\ UNCHANGED <<file_manager, task_manager, status_bar, input_focus, loop, usr1,
                   evq, procs, task_sigs, now, chan, hist>>

BridgeKeys == {"l", "h", "j"}

\* the shell has sourced the init script: scd send-pid and the first scd cd are
\* to be announced
InitBridge ==
    /\ InitProgram
    /\ bridge.shell = "send"

NextBridge ==
    \/ \E k \in BridgeKeys : BridgeKey(k)
    \/ LoopRun
    \/ LoopShellEvent
    \/ ReaderRead
    \/ ShellSendEvent
    \/ \E d \in ShellDirs : ShellUserCd(d)
    \/ ShellSignalled
    \/ ShellGetOpen
    \/ ShellGetRead

SpecBridge == InitBridge /\ [][NextBridge]_vars

-----------------------------------------------------------------------------
(* The events pipe with its failures: payloads that do not decode, opens   *)
(* and reads that fail, and the loop that finds the channel disconnected.  *)

\* a program writes a payload to SHELL_EVENTS that is not an Event
ShellSendMalformed ==
    /\ bridge.shell = "prompt"
    /\ hist.inputs < MaxInputs
    /\ bridge.rd = "open"
    /\ evq' = Append(evq, EvMalformed)
    /\ bridge' = [bridge EXCEPT !.rd = "read"]
    /\ hist' = [hist EXCEPT !.inputs = @ + 1]
    /\ last' = Step("ShellSendMalformed", "", "ok", "none", 0, FALSE)
    /\ UNCHANGED <<file_manager, task_manager, status_bar, input_focus, loop, pipe, usr1,
                   received, shell_cwd, fs, watchq, procs, task_sigs, now, chan>>

\* receive_events: File::open(SHELL_EVENTS) fails, or the writer closes before
\* the length and the payload are complete and read_exact fails
ReaderTransportError ==
    /\ bridge.rd = "open"
    /\ hist.inputs < MaxInputs
    /\ bridge' = [bridge EXCEPT !.rd = "dead", !.held = ReaderErr("transport")]
    /\ hist' = [hist EXCEPT !.inputs = @ + 1]
    /\ last' = Step("ReaderTransportError", "", "err", "none", 0, FALSE)
    /\ UNCHANGED <<file_manager, task_manager, status_bar, input_focus, loop, pipe, usr1,
                   received, evq, shell_cwd, fs, watchq, procs, task_sigs, now, chan>>

\* the shell_events arm of select! when the channel is disconnected: recv
\* returns the error and shell_event.unwrap() panics
LoopDisconnected ==
    /\ loop = "running"
    /\ bridge.ui = 0
    /\ bridge.rd = "dead"
    /\ Effects(Panic(Ctx, "unwrap on RecvError"), "Shell", "disconnected", 0)
    /\ UNCHANGED <<received, evq, shell_cwd, fs, watchq, procs, now, chan, bridge>>

FaultKeys == {"j", "k"}

NextFaults ==
    \/ \E k \in FaultKeys : BridgeKey(k)
    \/ LoopShellEvent
    \/ LoopDisconnected
    \/ ReaderRead
    \/ ReaderTransportError
    \/ ShellSendEvent
    \/ ShellSendMalformed
    \/ \E d \in ShellDirs : ShellUserCd(d)

\* select! takes one of the ready arms at random: an arm that stays ready is taken
SpecFaults == InitBridge /\ [][NextFaults]_vars /\ WF_vars(LoopDisconnected)

-----------------------------------------------------------------------------
(* The listing with its marks: the keys of the list, the mark key, paste   *)
(* and move, in a directory whose files come and go, with and without a    *)
(* shell.                                                                  *)

\* the files that come and go: a hidden one and a plain one
MarkFiles == {<<".b">>, <<"c">>}

InitMarks ==
    /\ InitFilter
    /\ fs \subseteq MarkFiles

\* a directory all of whose files come and go, and its files
NavDir == <<"e">>

NavFiles == {<<"e", ".b">>, <<"e", "c">>}

\* scd is started in NavDir
InitNav ==
    /\ fs \in SUBSET NavFiles
    /\ now = 0
    /\ file_manager = FileManagerIn(NavDir)
    /\ task_manager = TaskManagerNew
    /\ status_bar = StatusBarNew
    /\ input_focus = "FileManager"
    /\ loop = "running"
    /\ pipe = <<>>
    /\ usr1 = 0
    /\ received = <<>>
    /\ evq = <<>>
    /\ shell_cwd = NavDir
    /\ watchq = 0
    /\ procs = [pid \in TaskPids |-> NoProc]
    /\ task_sigs = {}
    /\ chan = ChanNew
    /\ bridge = BridgeNew
    /\ hist = HistNew
    /\ last = Step("Init", "", "ok", "none", 0, FALSE)

NavKeys == {" ", "j", "k", "."}

NextNav ==
    \/ \E k \in NavKeys : Key(k)
    \/ \E p \in NavFiles : FsChange(p)
    \/ Watch

SpecNav == InitNav /\ [][NextNav]_vars

MarkKeys == {" ", "p", "m", "j"}

NextMarks ==
    \/ \E k \in MarkKeys : Key(k)
    \/ \E p \in PidValues : ShellSendPid(p)
    \/ ShellEvent
    \/ ShellRead

SpecMarks == InitMarks /\ [][NextMarks]_vars

-----------------------------------------------------------------------------
(* Properties of the task list.                                            *)

\* C11: handling a Task event whose spawn succeeds adds exactly one Task, at the
\* end of the collection, for the child just spawned, with the command of the
\* event and the status Running(spinner); the tasks already present are unchanged.
TaskAddedAlone ==
    [][(last'.op = "Shell" /\ last'.arg = "Task" /\ last'.res = "ok") =>
          LET new == Last(task_manager'.tasks)
          IN  /\ task_manager'.tasks = Append(task_manager.tasks, new)
              /\ new.status = Running(Spinner)
              /\ new.command = Head(evq).command
              /\ new.rendered = Head(evq).rendered
              /\ procs[new.pid].child = "none" /\ procs'[new.pid].child = "running"
              /\ \A i \in 1..Len(task_manager.tasks) : task_manager.tasks[i].pid # new.pid]_vars

\* a Task was added behind a task that is no longer in its initial status
AddedBehindChanged ==
    /\ last.op = "Shell" /\ last.arg = "Task" /\ last.res = "ok"
    /\ Len(task_manager.tasks) = 2
    /\ task_manager.tasks[1].status # Running(Spinner)
    /\ task_manager.tasks[2].status = Running(Spinner)

\* the signal of the 't' and of the '9' key
KillSignal(key) == IF key = "t" THEN "SIGTERM" ELSE "SIGKILL"

\* the signal an Ask prompt names
PromptSignal(mode) == IF StartsWith(mode.prompt, "Terminate '") THEN "SIGTERM" ELSE "SIGKILL"

\* C16: 't' and '9' on a selected task send no signal: they open an Ask prompt;
\* SIGTERM or SIGKILL is sent only when that prompt is answered with 'y', and
\* then to the pid of the task that was selected when the prompt opened; any
\* other answer sends nothing.
KillOnlyOnYes ==
    [][/\ (/\ last'.op = "Key" /\ last'.arg \in {"t", "9"}
           /\ status_bar.mode.kind \notin {"Ask", "Edit"}
           /\ input_focus = "TaskManager")
          => /\ ~last'.sig /\ task_sigs' = task_sigs
             /\ SelectedPid(task_manager) # None =>
                    /\ status_bar'.mode.kind = "Ask"
                    /\ PromptSignal(status_bar'.mode) = KillSignal(last'.arg)
                    /\ hist'.tpid = SelectedPid(task_manager)
       /\ (/\ status_bar.mode.kind = "Ask" /\ status_bar.mode.on_yes.fn = "kill"
           /\ last'.op = "Key")
          => IF last'.arg = "y"
             THEN /\ hist.tpid # None
                  /\ last'.sig <=> last'.res = "ok"
                  /\ last'.sig =>
                         task_sigs' = task_sigs \cup
                             {[pid |-> hist.tpid[1], sig |-> PromptSignal(status_bar.mode)]}
                  /\ ~last'.sig => task_sigs' = task_sigs
             ELSE ~last'.sig /\ task_sigs' = task_sigs
       /\ \A s \in task_sigs' \ task_sigs :
              s.sig \in {"SIGTERM", "SIGKILL"} =>
                  /\ status_bar.mode.kind = "Ask"
                  /\ last'.op = "Key" /\ last'.arg = "y"]_vars

\* 'y' sent SIGKILL to the task of the prompt while another task was selected
KilledWhileElsewhere ==
    /\ last.op = "Key" /\ last.arg = "y" /\ last.mode = "Ask" /\ last.sig
    /\ hist.tpid # None
    /\ [pid |-> hist.tpid[1], sig |-> "SIGKILL"] \in task_sigs
    /\ SelectedPid(task_manager) # None
    /\ SelectedPid(task_manager) # hist.tpid

-----------------------------------------------------------------------------
(* Properties of the status bar's messages.                                *)

\* C12: a key pressed while a Message is shown dismisses that Message and is
\* handled as a key of Normal mode in the same step.
MessagePreemptedByKey ==
    [][(status_bar.mode.kind = "Message" /\ last'.op = "Key" /\ last'.res = "ok"
            /\ loop' = "running") =>
          /\ status_bar'.mode # status_bar.mode
          /\ LET c == OnKey([Ctx EXCEPT !.bar.mode = Normal], last'.arg)
             IN  file_manager' = c.fm /\ task_manager' = c.tm /\ input_focus' = c.focus]_vars

\* C13: a Message stays until its expiry: a tick earlier than expire_at leaves the
\* Message, and a tick at or after expire_at returns the status bar to Normal.
MessageLastsUntilExpiry ==
    [][(status_bar.mode.kind = "Message" /\ last'.op = "Tick") =>
          IF Received(chan, "ticks") < status_bar.mode.expire_at
          THEN status_bar' = status_bar
          ELSE status_bar'.mode = Normal]_vars

-----------------------------------------------------------------------------
(* Properties of the Edit prompt.                                          *)

\* C14: in Edit mode the cursor is within the text and denotes a valid position
\* in it (a character boundary), whatever characters were typed, and no key
\* handled by the prompt faults.
EditNeverFaults ==
    /\ status_bar.mode.kind = "Edit" =>
           /\ status_bar.mode.cursor \in 0..Len(status_bar.mode.text)
           /\ IsCharBoundary(status_bar.mode.text, status_bar.mode.cursor)
    /\ (last.op = "Key" /\ last.mode = "Edit") => last.res # "panic"

\* the text an Edit prompt holds after a step, if it still is that prompt
TextChanged ==
    /\ status_bar'.mode.kind = "Edit"
    /\ status_bar'.mode.text # status_bar.mode.text

-----------------------------------------------------------------------------
(* Properties of Stop and of the order of the task list.                   *)

\* 'z' reaches the task manager's handler with a task selected
StopPressed ==
    /\ last'.op = "Key" /\ last'.arg = "z"
    /\ input_focus = "TaskManager"
    /\ status_bar.mode.kind \notin {"Ask", "Edit"}
    /\ SelectedPid(task_manager) # None

\* C17 as stated: 'z' on a selected task sends SIGINT to that task's pid and, in
\* the same step, sets that task's status to Stopped; no other task's status
\* changes.
StopAlwaysMarksStopped ==
    [][StopPressed =>
          LET i == task_manager.selected[1] + 1
          IN  /\ last'.sig
              /\ [pid |-> task_manager.tasks[i].pid, sig |-> "SIGINT"] \in task_sigs'
              /\ task_manager'.tasks =
                     [task_manager.tasks EXCEPT ![i].status = Stopped]]_vars

\* C17: 'z' on a selected task whose pid still names a process (running, or
\* exited and not yet waited for) sends SIGINT to that pid and nothing else, and in
\* the same step sets that task's status to Stopped, leaving every other task as
\* it was; when the process has been waited for, the kill fails, no signal is sent,
\* no task changes and the error is shown as a Message.
StopMarksSignalledTask ==
    [][StopPressed =>
          LET i == task_manager.selected[1] + 1
              pid == task_manager.tasks[i].pid
          IN  IF procs[pid].child \in {"running", "zombie"}
              THEN /\ last'.res = "ok" /\ last'.sig
                   /\ task_sigs' = task_sigs \cup {[pid |-> pid, sig |-> "SIGINT"]}
                   /\ task_manager' =
                          [task_manager EXCEPT !.tasks[i].status = Stopped]
              ELSE /\ last'.res = "err" /\ ~last'.sig
                   /\ task_sigs' = task_sigs
                   /\ task_manager' = task_manager
                   /\ status_bar'.mode.kind = "Message"]_vars

\* 'z' stopped the second task of the list while the first one kept running
StoppedBesideRunning ==
    /\ last.op = "Key" /\ last.arg = "z" /\ last.res = "ok" /\ last.sig
    /\ Len(task_manager.tasks) = 2
    /\ task_manager.selected = Some(1)
    /\ task_manager.tasks[2].status = Stopped
    /\ task_manager.tasks[1].status.kind = "Running"
    /\ [pid |-> task_manager.tasks[2].pid, sig |-> "SIGINT"] \in task_sigs

\* the groups of the displayed list, from the top: Running, Stopped, exited with
\* failure, exited successfully
DisplayGroup(t) ==
    IF t.status.kind = "Running" THEN 1
    ELSE IF t.status.kind = "Stopped" THEN 2
    ELSE IF t.status.code # 0 THEN 3
    ELSE 4

-----------------------------------------------------------------------------
(* Properties of the listing.                                              *)

\* a fresh enumeration of directory d, without the dot-files unless hidden files
\* are shown, and with the names that contain the filter text, whatever the case
FreshListing(d, show_hidden, filter) ==
    SelectSeq(SortFiles(Entries(d)),
              LAMBDA f : /\ (show_hidden \/ SubSeq(f.name, 1, 1) # ".")
                         /\ Contains(ToLower(f.name), ToLower(filter)))

\* C19: whatever files were created and removed in the watched directory, once
\* every notification of the watcher has been handled the visible listing is a
\* fresh enumeration of the directory filtered by the current show-hidden flag
\* and filter text.
ListingReconciled ==
    watchq = 0 =>
        file_manager.files =
            FreshListing(file_manager.dir, file_manager.show_hidden, file_manager.filter)

\* the last notification of a created file has been handled while a filter that
\* the file's name does not match was in force: the file exists and is not listed
CreatedFileFilteredOut ==
    /\ last.op = "Watch" /\ last.res = "ok" /\ watchq = 0
    /\ <<"f">> \in fs
    /\ file_manager.filter = "a"
    /\ file_manager.dir = Root
    /\ \E i \in 1..Len(file_manager.all_files) : file_manager.all_files[i].name = "f"
    /\ file_manager.files = <<FileInfo(<<"a">>)>>

\* C20: '.' pressed twice in a row restores the visible listing and the name of
\* the selected entry to what they were before the first '.', whatever the
\* directory holds and whatever was selected, a dot-file included.
ToggleTwiceRestores ==
    [][(TogglesHidden(last'.op, last'.arg) /\ hist.before # None /\ last'.res = "ok") =>
          /\ file_manager'.files = hist.before[1].files
          /\ SelectedPath(file_manager') = hist.before[1].selected]_vars

-----------------------------------------------------------------------------
(* Properties of the filter and of the order of the listing.               *)

\* the names listed
ListedNames(fm) == {fm.files[i].name : i \in 1..Len(fm.files)}

\* C21: across a change of the filter text the selected entry is preserved by
\* name when that name is still in the new listing; when it is not, the selection
\* falls back to the first entry.
SelectionFollowsFilter ==
    [][(/\ file_manager'.filter # file_manager.filter
        /\ last'.res = "ok"
        /\ SelectedPath(file_manager) # None) =>
          LET name == Selected(file_manager.files, file_manager.selected)[1].name
          IN  IF name \in ListedNames(file_manager')
              THEN /\ SelectedPath(file_manager') # None
                   /\ Selected(file_manager'.files, file_manager'.selected)[1].name = name
              ELSE file_manager'.selected = Some(0)]_vars

\* typing the filter "b" left "ab" selected, now as the second entry of two
SelectionKeptBehindFirst ==
    /\ last.op = "Key" /\ last.arg = "b" /\ last.mode = "Edit"
    /\ file_manager.filter = "b"
    /\ Len(file_manager.files) = 2
    /\ file_manager.selected = Some(1)
    /\ file_manager.files[2].name = "ab"

\* entry a is listed above entry b: a directory above a file, otherwise the name
\* that is smaller byte by byte
ListedAbove(a, b) ==
    \/ a.is_dir /\ ~b.is_dir
    \/ a.is_dir = b.is_dir /\ BytesLess(Bytes(a.name), Bytes(b.name))

\* the entries of the directory that are not dot-prefixed, or all of them when
\* hidden files are shown
NotHidden(fm) ==
    {e \in Entries(fm.dir) : fm.show_hidden \/ SubSeq(e.name, 1, 1) # "."}

\* the listing holds exactly the entries of want, each once, in order
ListsInOrder(fm, want) ==
    /\ Range(fm.files) = want
    /\ Len(fm.files) = Cardinality(want)
    /\ \A i, j \in 1..Len(fm.files) : i < j => ListedAbove(fm.files[i], fm.files[j])

\* C22 as stated: the visible listing is exactly the directory's entries whose
\* name is not dot-prefixed (all entries when hidden files are shown) and whose
\* name contains the filter text, directories before files and then by name.
ListingContainsFilter ==
    ListsInOrder(file_manager,
                 {e \in NotHidden(file_manager) : Contains(e.name, file_manager.filter)})

\* C22: the visible listing is exactly the directory's entries whose name is not
\* dot-prefixed (all entries when hidden files are shown) and whose name contains
\* the filter text when both are compared in lower case, directories before
\* files and then by name, byte by byte, so that dot-files sort among the others.
ListingMatchesFilter ==
    ListsInOrder(file_manager,
                 {e \in NotHidden(file_manager) :
                      Contains(ToLower(e.name), ToLower(file_manager.filter))})

\* with hidden files shown and the filter "b" the listing is .b, B, ab
DotAndUpperCaseListed ==
    /\ file_manager.show_hidden
    /\ file_manager.filter = "b"
    /\ [i \in 1..Len(file_manager.files) |-> file_manager.files[i].name]
           = <<".b", "B", "ab">>

-----------------------------------------------------------------------------
(* Properties of cd and of the keys that need the shell.                   *)

\* the step about to be taken calls cd with a directory that cannot be read:
\* 'l' on such a directory, or the shell's announcement that it moved there
CdIntoUnreadable ==
    \/ /\ last'.op = "Key" /\ last'.arg = "l"
       /\ input_focus = "FileManager"
       /\ status_bar.mode.kind \notin {"Ask", "Edit"}
       /\ SelectedPath(file_manager) # None
       /\ Selected(file_manager.files, file_manager.selected)[1].path \in Unreadable
    \/ /\ last'.op = "Shell" /\ last'.arg = "ChangeDirectory"
       /\ Head(evq).dir \in Unreadable
       /\ Head(evq).dir # file_manager.dir

\* C23: when cd fails because the directory cannot be read, the call returns an
\* error, the current directory and the visible listing (the whole file manager)
\* are what they were before the call, and the mode becomes Message.
FailedCdChangesNothing ==
    [][CdIntoUnreadable =>
          /\ last'.res = "err"
          /\ file_manager'.dir = file_manager.dir
          /\ file_manager'.files = file_manager.files
          /\ file_manager' = file_manager
          /\ status_bar'.mode.kind = "Message"
          /\ status_bar'.mode.text = "Permission denied"]_vars

\* 'l' on the unreadable directory x failed: the UI is still in / and shows the error
CdRefusedShown ==
    /\ last.op = "Key" /\ last.arg = "l" /\ last.res = "err"
    /\ file_manager.dir = Root
    /\ Selected(file_manager.files, file_manager.selected)[1].path = <<"x">>
    /\ status_bar.mode.kind = "Message"
    /\ status_bar.mode.text = "Permission denied"

\* a key reaches the file manager's handler while no shell is attached and an
\* entry is selected
KeyWithoutShell(key) ==
    /\ last'.op = "Key" /\ last'.arg = key
    /\ input_focus = "FileManager"
    /\ status_bar.mode.kind \notin {"Ask", "Edit"}
    /\ ~ShellKnown(file_manager.shell_pid)
    /\ SelectedPath(file_manager) # None

\* the entry selected before the step
SelectedEntry == Selected(file_manager.files, file_manager.selected)[1]

NothingSent == pipe' = pipe /\ usr1' = usr1 /\ last'.ran # "sent"

QuitAlwaysSucceeds ==
    [][(/\ last'.op = "Key" /\ last'.arg = "q"
        /\ status_bar.mode.kind \notin {"Ask", "Edit"}) => loop' = "done"]_vars

-----------------------------------------------------------------------------
(* Properties of the two pipes, statement by statement.                    *)

LoopWaits == RunAt = "open" /\ ~ReaderPresent

\* the shell waits in send_event for receive_events to open the events pipe
ShellWaits == bridge.shell = "send" /\ ~EventReaderPresent

\* the thread of receive_events waits in tx.send for the loop to receive
ReaderWaits == bridge.rd = "send" /\ bridge.ui # 0

\* C28: the loop thread blocks only in select!: handling an event, also one that
\* sends a command to the shell, never waits for the shell.
LoopNeverWaitsForShell == ~LoopWaits

\* C29: the loop thread, the thread of receive_events and the shell never wait
\* for one another in a circle: whenever the loop is sending a command while the
\* shell announces events, one of the three can go on.
NeverAllWaiting == ~(LoopWaits /\ ShellWaits /\ ReaderWaits)

\* C30: at most one command is in flight: the loop never writes a second
\* command to the commands pipe before the shell has read the one before.
AtMostOneInFlight == Len(pipe) <= 1

-----------------------------------------------------------------------------
(* Properties of the lookups, of the producers and of the errors.          *)

\* C31: every task update the supervisor handles refers to a task of the task
\* collection: the lookup by pid in on_event succeeds and never faults.
UpdateFindsItsTask == ~(last.op = "Task" /\ last.res = "panic")

\* a reader thread of a task has panicked
ReaderDead == \E pid \in TaskPids : "panicked" \in {procs[pid].so, procs[pid].se}

\* C32: a crash of a producer thread ends the whole process: once a reader
\* thread of a task has panicked, the loop handles no further event.
DeadProducerEndsLoop ==
    [][ReaderDead => last'.op \notin {"Key", "Shell", "Task", "Watch", "Tick"}]_vars

\* C33: a transport error on the way of the commands or of the events is shown
\* as a Message and never ends the main loop: after receive_events has failed to
\* open or to read the events pipe the loop is still running.
TransportErrorNeverFatal == ~(bridge.held = ReaderErr("transport") /\ loop # "running")

\* C34: a payload of the events pipe that does not decode crashes the UI: the
\* reader thread ends with the error and reads nothing again, the payload is
\* never handled as an event, and the loop panics when select! takes the
\* disconnected channel.
MalformedPayloadCrashes ==
    /\ [][bridge.held = ReaderErr("payload")
             => /\ bridge'.rd = "dead" /\ bridge'.held = bridge.held
                /\ last'.op = "Shell" => loop' = "panicked"]_vars
    /\ (last.op = "ReaderRead" /\ last.res = "err") ~> (loop = "panicked")

\* the reader thread has ended on a payload and the loop has panicked
CrashedOnPayload ==
    /\ bridge.held = ReaderErr("payload")
    /\ loop = "panicked"
    /\ last.op = "Shell" /\ last.arg = "disconnected"

\* the pid names no process: its child has been waited for
Gone(pid) == procs[pid].child \notin {"running", "zombie"}

\* 'z' on a task, or 'y' in the prompt of 't' or '9', whose pid is gone
SignalToGone ==
    /\ last'.op = "Key"
    /\ \/ StopPressed /\ Gone(task_manager.tasks[task_manager.selected[1] + 1].pid)
       \/ /\ status_bar.mode.kind = "Ask" /\ last'.arg = "y"
          /\ status_bar.mode.on_yes.fn = "kill"
          /\ Gone(status_bar.mode.on_yes.pid)

\* C35: when sending Stop, Terminate or Kill fails because the pid no longer
\* exists, the error is shown as a Message, no signal is sent, and the status of
\* every task and the task collection are as before.
FailedSignalChangesNothing ==
    [][SignalToGone =>
          /\ last'.res = "err" /\ ~last'.sig
          /\ loop' = "running"
          /\ status_bar'.mode = [kind |-> "Message", text |-> "ESRCH: No such process",
                                  expire_at |-> now + MessageSecs]
          /\ task_sigs' = task_sigs
          /\ task_manager' = task_manager]_vars

\* 'y' confirmed a prompt whose task had exited and been waited for
KillOfGoneShown ==
    /\ last.op = "Key" /\ last.arg = "y" /\ last.res = "err"
    /\ status_bar.mode.kind = "Message"
    /\ \E i \in 1..Len(task_manager.tasks) : Gone(task_manager.tasks[i].pid)

\* C36: the task that Stop, Terminate and Kill act on is the task drawn with the
\* selection marker.
MarkerOnActedTask ==
    task_manager.tasks # <<>> => MarkedPid(task_manager) = SelectedPid(task_manager)

\* C37: an open Ask or Edit prompt is left only by a key: no tick, notification,
\* shell event or task update, also one whose handling fails, changes the mode
\* or drops the deferred action while the prompt is open.
PromptLeftOnlyByKey ==
    [][status_bar.mode.kind \in {"Ask", "Edit"} /\ last'.op # "Key"
          => status_bar'.mode = status_bar.mode]_vars

\* C38: the selection index of the file manager is absent exactly when the
\* listing is empty, and otherwise is smaller than the length of the listing.
SelectionWithinListing ==
    /\ file_manager.selected = None <=> file_manager.files = <<>>
    /\ file_manager.selected # None => file_manager.selected[1] < Len(file_manager.files)

\* C39: no key press faults: the keys of the lists are safe when the listing is
\* empty, and 'j' and 'k' on a listing that is not empty leave an entry of the
\* listing selected.
KeyNeverFaults ==
    /\ ~(last.op = "Key" /\ last.res = "panic")
    /\ (last.op = "Key" /\ last.arg \in {"j", "k"} /\ last.mode \notin {"Ask", "Edit"}
           /\ input_focus = "FileManager" /\ file_manager.files # <<>>)
          => /\ file_manager.selected # None
             /\ file_manager.selected[1] < Len(file_manager.files)

\* C40: when a paste ('p') or a move ('m') of the marked files cannot be sent to
\* the shell, the marked files are as before; they are cleared only when the
\* command was sent.
MarksKeptUnlessSent ==
    [][(/\ last'.op = "Key" /\ last'.arg \in {"p", "m"}
        /\ status_bar.mode.kind \notin {"Ask", "Edit"}
        /\ input_focus = "FileManager"
        /\ last'.ran # "sent")
          => file_manager'.files_marked = file_manager.files_marked]_vars

=============================================================================
